---- MODULE Spec2Model ----
(***************************************************************************)
(* TinyTask macro editor: the .rec codec (src/src/lib/recParser.ts) and    *)
(* the editable-timeline store (src/src/hooks/useRecEditor.ts).            *)
(*                                                                         *)
(* JavaScript numbers are modelled exactly.  A finite number is            *)
(*     hi * 2^16 + lo  (+ 1/2 when half)                                   *)
(* with lo in 0..2^16-1 and hi any integer, so that 32-bit quantities and  *)
(* their sums are computed without overflowing the model checker's own     *)
(* integers.  NaN, +Infinity and -Infinity are separate kinds.             *)
(***************************************************************************)
EXTENDS Integers, Sequences, FiniteSets, TLC

\* ------------------------------------------------------------------------
\* JavaScript numbers
\* ------------------------------------------------------------------------
LIMB == 2^16

Fin(h, l) == [k |-> "fin", hi |-> h, lo |-> l, half |-> FALSE]
I(n) == Fin(n \div LIMB, n % LIMB)
Half(n) == [k |-> "fin", hi |-> n \div LIMB, lo |-> n % LIMB, half |-> TRUE]
NaN == [k |-> "nan", hi |-> 0, lo |-> 0, half |-> FALSE]
PosInf == [k |-> "inf", hi |-> 0, lo |-> 0, half |-> FALSE]
NegInf == [k |-> "ninf", hi |-> 0, lo |-> 0, half |-> FALSE]

isFinite(v) == v.k = "fin"

\* a < b for finite a, b
Lt(a, b) ==
    \/ a.hi < b.hi
    \/ a.hi = b.hi /\ a.lo < b.lo
    \/ a.hi = b.hi /\ a.lo = b.lo /\ ~a.half /\ b.half

\* a + b for finite a, b of which at most one has a fractional part
Plus(a, b) ==
    LET l == a.lo + b.lo
    IN  [k |-> "fin", hi |-> a.hi + b.hi + (l \div LIMB), lo |-> l % LIMB,
         half |-> a.half \/ b.half]

\* a - b for finite integers a, b
Minus(a, b) ==
    LET l == a.lo - b.lo
    IN  Fin(a.hi - b.hi + (l \div LIMB), l % LIMB)

\* JavaScript +, for the operand kinds the program produces
jsAdd(a, b) ==
    IF a.k = "nan" \/ b.k = "nan" THEN NaN
    ELSE IF a.k = "fin" /\ b.k = "fin" THEN Plus(a, b)
    ELSE IF a.k = "fin" THEN b
    ELSE IF b.k = "fin" \/ a.k = b.k THEN a
    ELSE NaN

\* Math.round: halves round towards +Infinity
mathRound(v) ==
    IF v.k = "fin" /\ v.half THEN Plus(Fin(v.hi, v.lo), I(1)) ELSE v

\* Math.trunc: towards zero
mathTrunc(v) ==
    IF v.k = "fin" /\ v.half
    THEN IF v.hi < 0 THEN Plus(Fin(v.hi, v.lo), I(1)) ELSE Fin(v.hi, v.lo)
    ELSE v

mathMin(a, b) == IF Lt(b, a) THEN b ELSE a
mathMax(a, b) == IF Lt(a, b) THEN b ELSE a

\* x % 2^32 for a finite integer x, with JavaScript's sign rule (the result
\* has the sign of the dividend)
RemU32(x) ==
    IF x.hi >= 0 THEN Fin(x.hi % LIMB, x.lo)
    ELSE IF x.hi % LIMB = 0 /\ x.lo = 0 THEN I(0)
    ELSE Minus(Fin(x.hi % LIMB, x.lo), Fin(LIMB, 0))

\* ------------------------------------------------------------------------
\* Codec: src/src/lib/recParser.ts
\* ------------------------------------------------------------------------
RECORD_BYTE_LENGTH == 20
UINT32_SIZE == 4
UINT32_MAX == Fin(LIMB, 0)

\* DataView.getUint32(offset, true); offset counts from 0 as in the source
getUint32(view, offset) ==
    Fin(view[offset + 3] + 256 * view[offset + 4],
        view[offset + 1] + 256 * view[offset + 2])

\* the 4 bytes DataView.setUint32(offset, value, true) stores
setUint32(value) ==
    LET v == IF isFinite(value) THEN mathTrunc(value) ELSE I(0)
        h == v.hi % LIMB
    IN  <<v.lo % 256, v.lo \div 256, h % 256, h \div 256>>

\* current - previous, left as it is when negative
diffUint32NoWrap(current, previous) == Minus(current, previous)

diffUint32(current, previous) ==
    RemU32(Plus(Minus(current, previous), UINT32_MAX))

\* [...hwndSet] after hwndSet.add(hwnd): insertion order, no duplicates
hwndAdd(hwnds, hwnd) ==
    IF \E i \in 1..Len(hwnds) : hwnds[i] = hwnd THEN hwnds
    ELSE Append(hwnds, hwnd)

\* the for loop of parseRec, from record `index` on
RECURSIVE parseLoop(_, _, _, _, _, _)
parseLoop(view, index, events, hwnds, previousAbsoluteTime, baseTime) ==
    IF index >= Len(view) \div RECORD_BYTE_LENGTH
    THEN [threw |-> FALSE,
          events |-> events,
          baseTime |-> baseTime,
          hwnds |-> hwnds,
          duration |-> IF Len(events) > 0 THEN events[Len(events)].time ELSE I(0)]
    ELSE
    LET offset == index * RECORD_BYTE_LENGTH
        message == getUint32(view, offset)
        paramL == getUint32(view, offset + UINT32_SIZE)
        paramH == getUint32(view, offset + UINT32_SIZE * 2)
        absoluteTime == getUint32(view, offset + UINT32_SIZE * 3)
        hwnd == getUint32(view, offset + UINT32_SIZE * 4)
    IN  IF index = 0
        THEN parseLoop(view, index + 1,
                 Append(events, [message |-> message, paramL |-> paramL,
                                 paramH |-> paramH, time |-> I(0),
                                 delay |-> I(0), hwnd |-> hwnd]),
                 hwndAdd(hwnds, hwnd), absoluteTime, absoluteTime)
        ELSE
        LET elapsed == diffUint32(absoluteTime, previousAbsoluteTime)
            previousEvent == events[Len(events)]
            time == Plus(previousEvent.time, elapsed)
        IN  parseLoop(view, index + 1,
                 Append(events, [message |-> message, paramL |-> paramL,
                                 paramH |-> paramH, time |-> time,
                                 delay |-> elapsed, hwnd |-> hwnd]),
                 hwndAdd(hwnds, hwnd), absoluteTime, baseTime)

\* parseRec without the size check: a stray tail is ignored
parseRecLenient(buffer) ==
    IF Len(buffer) = 0
    THEN [threw |-> FALSE, events |-> <<>>, baseTime |-> I(0),
          hwnds |-> <<>>, duration |-> I(0)]
    ELSE parseLoop(buffer, 0, <<>>, <<>>, I(0), I(0))

\* parseRec(source); a throw is the result [threw |-> TRUE, ...] carrying the
\* two numbers the message is built from
parseRec(buffer) ==
    IF Len(buffer) = 0
    THEN [threw |-> FALSE, events |-> <<>>, baseTime |-> I(0),
          hwnds |-> <<>>, duration |-> I(0)]
    ELSE IF Len(buffer) % RECORD_BYTE_LENGTH # 0
    THEN [threw |-> TRUE,
          message |-> <<"Unexpected .rec size", Len(buffer), RECORD_BYTE_LENGTH>>]
    ELSE parseLoop(buffer, 0, <<>>, <<>>, I(0), I(0))

toUint32(value) ==
    IF ~isFinite(value) THEN I(0)
    ELSE LET normalised == mathTrunc(value)
         IN  RemU32(Plus(RemU32(normalised), UINT32_MAX))

\* the forEach below without its `index === 0` branch: the first event's
\* delay is added to the seed
RECURSIVE encodeLoopAddingFirstDelay(_, _, _, _, _)
encodeLoopAddingFirstDelay(events, index, baseTime, absoluteTime0, bytes) ==
    IF index >= Len(events) THEN bytes
    ELSE
    LET event == events[index + 1]
        increment == mathMax(I(0), toUint32(event.delay))
        absoluteTime == RemU32(Plus(absoluteTime0, increment))
    IN  encodeLoopAddingFirstDelay(events, index + 1, baseTime, absoluteTime,
            bytes \o setUint32(toUint32(event.message))
                  \o setUint32(toUint32(event.paramL))
                  \o setUint32(toUint32(event.paramH))
                  \o setUint32(absoluteTime)
                  \o setUint32(toUint32(event.hwnd)))

\* the forEach of encodeRec, from event `index` (counted from 0) on
RECURSIVE encodeLoop(_, _, _, _, _)
encodeLoop(events, index, baseTime, absoluteTime0, bytes) ==
    IF index >= Len(events) THEN bytes
    ELSE
    LET event == events[index + 1]
        increment == mathMax(I(0), toUint32(event.delay))
        absoluteTime == IF index = 0 THEN baseTime
                        ELSE RemU32(Plus(absoluteTime0, increment))
    IN  encodeLoop(events, index + 1, baseTime, absoluteTime,
            bytes \o setUint32(toUint32(event.message))
                  \o setUint32(toUint32(event.paramL))
                  \o setUint32(toUint32(event.paramH))
                  \o setUint32(absoluteTime)
                  \o setUint32(toUint32(event.hwnd)))

NoOptions == [has |-> FALSE, baseTime |-> I(0)]
WithBaseTime(t) == [has |-> TRUE, baseTime |-> t]

\* encodeRec that seeds record 0 with 0 whatever options.baseTime is
encodeRecUnseeded(events, options) ==
    IF Len(events) = 0 THEN <<>>
    ELSE encodeLoop(events, 0, I(0), I(0), <<>>)

\* encodeRec(events, options)
encodeRec(events, options) ==
    IF Len(events) = 0 THEN <<>>
    ELSE LET baseTime == toUint32(IF options.has THEN options.baseTime ELSE I(0))
         IN  encodeLoop(events, 0, baseTime, baseTime, <<>>)

\* the copy with paramL and paramH taken from each other
cloneAsEncodableSwapped(events) ==
    [i \in 1..Len(events) |->
        [message |-> events[i].message, paramL |-> events[i].paramH,
         paramH |-> events[i].paramL, delay |-> events[i].delay,
         hwnd |-> events[i].hwnd]]

cloneAsEncodable(events) ==
    [i \in 1..Len(events) |->
        [message |-> events[i].message, paramL |-> events[i].paramL,
         paramH |-> events[i].paramH, delay |-> events[i].delay,
         hwnd |-> events[i].hwnd]]

\* ------------------------------------------------------------------------
\* Store: src/src/hooks/useRecEditor.ts
\* ------------------------------------------------------------------------
HISTORY_LIMIT == 50

\* `undefined` and `null` are the empty tuple; a present value v is <<v>>
null == <<>>

\* sanitizeDelay without the upper clamp
sanitizeDelayUnclamped(value) ==
    IF ~isFinite(value) \/ Lt(value, I(0)) THEN I(0) ELSE mathRound(value)

sanitizeDelay(value) ==
    IF ~isFinite(value) \/ Lt(value, I(0)) THEN I(0)
    ELSE mathMin(mathRound(value), Minus(UINT32_MAX, I(1)))

\* the map of recomputeTimeline, from position `index` (counted from 0) on
RECURSIVE timelineLoop(_, _, _, _)
timelineLoop(events, index, elapsed, out) ==
    IF index >= Len(events) THEN out
    ELSE
    LET event == events[index + 1]
    IN  IF index = 0
        THEN timelineLoop(events, index + 1, I(0),
                 Append(out, [event EXCEPT !.delay = I(0), !.time = I(0)]))
        ELSE
        LET delay == sanitizeDelay(event.delay)
            elapsed1 == Plus(elapsed, delay)
        IN  timelineLoop(events, index + 1, elapsed1,
                 Append(out, [event EXCEPT !.delay = delay, !.time = elapsed1]))

\* recomputeTimeline that sanitizes the first delay instead of zeroing it
recomputeTimelineKeepFirst(events) ==
    LET out == timelineLoop(events, 0, I(0), <<>>)
    IN  [i \in 1..Len(out) |->
            IF i = 1 THEN [out[i] EXCEPT !.delay = sanitizeDelay(events[i].delay)]
            ELSE out[i]]

\* recomputeTimeline adding each delay to the time the previous event came
\* with, instead of to the running sum
recomputeTimelineFromStoredTime(events) ==
    [i \in 1..Len(events) |->
        IF i = 1 THEN [events[i] EXCEPT !.delay = I(0), !.time = I(0)]
        ELSE LET delay == sanitizeDelay(events[i].delay)
             IN  [events[i] EXCEPT !.delay = delay,
                                   !.time = Plus(events[i - 1].time, delay)]]

recomputeTimeline(events) == timelineLoop(events, 0, I(0), <<>>)

\* the id template `${index}-${event.time}-${event.message}-${event.paramL}-${event.paramH}`
parsedId(index, event) ==
    <<"rec", index, event.time, event.message, event.paramL, event.paramH>>

createEditorEvents(parsed) ==
    [i \in 1..Len(parsed) |->
        [id |-> parsedId(i - 1, parsed[i]),
         message |-> parsed[i].message,
         paramL |-> parsed[i].paramL,
         paramH |-> parsed[i].paramH,
         delay |-> parsed[i].delay,
         time |-> parsed[i].time,
         hwnd |-> parsed[i].hwnd]]

\* the template below without its ${i}
insertedIdNoIndex(stamp, i) == <<"new", stamp, 0>>

\* the id template `new-${Date.now()}-${i}-${Math.random()}`; `stamp` stands
\* for the clock reading and the random draws of one insertEvents call, taken
\* to differ from those of every other call
insertedId(stamp, i) == <<"new", stamp, i>>

\* [snapshot, ...stack]: the snapshot put at the wrong end
pushLimitedFront(stack, snapshot) ==
    LET next == <<snapshot>> \o stack
    IN  IF Len(next) > HISTORY_LIMIT THEN Tail(next) ELSE next

\* [...stack, snapshot] without the shift()
pushUnlimited(stack, snapshot) == Append(stack, snapshot)

\* [...stack, snapshot] with pop() for shift(): over the limit the newest
\* entry is dropped
pushLimitedPop(stack, snapshot) ==
    LET next == Append(stack, snapshot)
    IN  IF Len(next) > HISTORY_LIMIT THEN SubSeq(next, 1, Len(next) - 1) ELSE next

\* [...stack, snapshot] with the oldest entry shifted out over HISTORY_LIMIT
pushLimited(stack, snapshot) ==
    LET next == Append(stack, snapshot)
    IN  IF Len(next) > HISTORY_LIMIT THEN Tail(next) ELSE next

idsOf(evs) == {evs[i].id : i \in 1..Len(evs)}

\* Array.prototype.filter
RECURSIVE filterSeq(_, _)
filterSeq(evs, keep) ==
    IF Len(evs) = 0 THEN <<>>
    ELSE IF Head(evs).id \in keep
         THEN <<Head(evs)>> \o filterSeq(Tail(evs), keep)
         ELSE filterSeq(Tail(evs), keep)

\* what a mutator callback hands to commitEvents: null, or { next } with an
\* optional selectionOverride
NoMutation == [isNull |-> TRUE, next |-> <<>>, hasOverride |-> FALSE, selectionOverride |-> {}]
Mutation(next) == [isNull |-> FALSE, next |-> next, hasOverride |-> FALSE, selectionOverride |-> {}]
MutationClearing(next) ==
    [isNull |-> FALSE, next |-> next, hasOverride |-> TRUE, selectionOverride |-> {}]

VARIABLES
    events,          \* useState: the working sequence
    initialEvents,   \* useState: the baseline
    baseTime,        \* useState
    fileName,        \* useState: null or <<name>>
    loading,         \* useState
    error,           \* useState: null or the message
    isDirty,         \* useState
    selectedIds,     \* useState: Set<string>
    selectionAnchor, \* useState: null or <<index>>
    history,         \* useState: undo stack, most recent last
    future,          \* useState: redo stack, most recent last
    pending,         \* loadFile / mergeFile calls suspended at `await file.arrayBuffer()`
    stamp,           \* the next (Date.now(), Math.random()) pair
    lastOp,          \* the call that produced this state and its result
    track,           \* the working sequences since history was last cleared
    loadedBytes,     \* the bytes of the last successful loadFile
    codec            \* a direct use of parseRec / encodeRec / recomputeTimeline

storeVars == <<events, initialEvents, baseTime, fileName, loading, error, isDirty,
               selectedIds, selectionAnchor, history, future, pending, stamp>>
ghostVars == <<lastOp, track, loadedBytes>>
vars == <<storeVars, ghostVars, codec>>

duration == IF Len(events) > 0 THEN events[Len(events)].time ELSE I(0)
canUndo == Len(history) > 0
canRedo == Len(future) > 0

\* ---- bookkeeping of the calls made (not program state) -----------------
Op(name, out) == [op |-> name, out |-> out]

TrackFrom(evs) == [ok |-> TRUE, log |-> <<evs>>, u |-> 0, r |-> 0]
TrackBroken == [ok |-> FALSE, log |-> <<>>, u |-> 0, r |-> 0]

\* the log is <<s0, s1, .., sn>>: s0 the sequence when the history was last
\* cleared, sk the sequence right after the k-th commit since; u and r count
\* the undos that followed the n commits and the redos that followed those.
\* A commit that leaves the sequence as it was, a commit after only some of
\* the commits were undone, and an undo after a redo end the bookkeeping.
TrackCommit(new) ==
    IF new = events \/ ~track.ok \/ track.r # 0 THEN TrackBroken
    ELSE IF track.u = 0 THEN [track EXCEPT !.log = Append(@, new)]
    ELSE IF track.u = Len(track.log) - 1
         THEN [ok |-> TRUE, log |-> <<track.log[1], new>>, u |-> 0, r |-> 0]
    ELSE TrackBroken

TrackUndo ==
    IF track.ok /\ track.r = 0 THEN [track EXCEPT !.u = @ + 1] ELSE TrackBroken

TrackRedo ==
    IF track.ok /\ track.r < track.u THEN [track EXCEPT !.r = @ + 1] ELSE TrackBroken

\* ---- commitEvents ------------------------------------------------------
\* the selection after a commit: the override, or the prior selection,
\* filtered to the ids still available
\* the selection kept as it is, ids that are gone included
committedSelectionUnpruned(mutation, recomputed) ==
    IF mutation.hasOverride THEN mutation.selectionOverride ELSE selectedIds

committedSelection(mutation, recomputed) ==
    LET availableIds == idsOf(recomputed)
    IN  IF mutation.hasOverride
        THEN mutation.selectionOverride \cap availableIds
        ELSE selectedIds \cap availableIds

\* commitEvents taking its snapshot after the mutation
commitEventsSnapshotAfter(mutation, resetAnchor) ==
    IF mutation.isNull
    THEN /\ selectionAnchor' = IF resetAnchor THEN null ELSE selectionAnchor
         /\ UNCHANGED <<events, history, future, isDirty, selectedIds, track>>
    ELSE LET recomputed == recomputeTimeline(mutation.next)
         IN  /\ history' = pushLimited(history, recomputed)
             /\ future' = <<>>
             /\ isDirty' = TRUE
             /\ selectedIds' = committedSelection(mutation, recomputed)
             /\ selectionAnchor' =
                    IF resetAnchor \/ (mutation.hasOverride /\ mutation.selectionOverride = {})
                    THEN null ELSE selectionAnchor
             /\ events' = recomputed
             /\ track' = TrackCommit(recomputed)

\* commitEvents without its setIsDirty(true)
commitEventsNotDirtying(mutation, resetAnchor) ==
    IF mutation.isNull
    THEN /\ selectionAnchor' = IF resetAnchor THEN null ELSE selectionAnchor
         /\ UNCHANGED <<events, history, future, isDirty, selectedIds, track>>
    ELSE LET recomputed == recomputeTimeline(mutation.next)
         IN  /\ history' = pushLimited(history, events)
             /\ future' = <<>>
             /\ UNCHANGED isDirty
             /\ selectedIds' = committedSelection(mutation, recomputed)
             /\ selectionAnchor' =
                    IF resetAnchor \/ (mutation.hasOverride /\ mutation.selectionOverride = {})
                    THEN null ELSE selectionAnchor
             /\ events' = recomputed
             /\ track' = TrackCommit(recomputed)

commitEvents(mutation, resetAnchor) ==
    IF mutation.isNull
    THEN /\ selectionAnchor' = IF resetAnchor THEN null ELSE selectionAnchor
         /\ UNCHANGED <<events, history, future, isDirty, selectedIds, track>>
    ELSE LET recomputed == recomputeTimeline(mutation.next)
         IN  /\ history' = pushLimited(history, events)
             /\ future' = <<>>
             /\ isDirty' = TRUE
             /\ selectedIds' = committedSelection(mutation, recomputed)
             /\ selectionAnchor' =
                    IF resetAnchor \/ (mutation.hasOverride /\ mutation.selectionOverride = {})
                    THEN null ELSE selectionAnchor
             /\ events' = recomputed
             /\ track' = TrackCommit(recomputed)

outcome(mutation) == IF mutation.isNull THEN "noop" ELSE "committed"

\* ---- loadFile ----------------------------------------------------------
\* up to the await: setError(undefined); setLoading(true)
loadFileStart(file) ==
    /\ error' = null
    /\ loading' = TRUE
    /\ pending' = Append(pending, [kind |-> "load", file |-> file, index |-> 0])
    /\ lastOp' = Op("loadFileStart", <<>>)
    /\ UNCHANGED <<events, initialEvents, baseTime, fileName, isDirty, selectedIds,
                   selectionAnchor, history, future, stamp, track, loadedBytes, codec>>

RemoveAt(seq, k) == [i \in 1..(Len(seq) - 1) |-> IF i < k THEN seq[i] ELSE seq[i + 1]]

\* a catch block that also drops the selection and the undo stack
loadFileCatchClearing(message) ==
    /\ error' = <<message>>
    /\ selectedIds' = {}
    /\ selectionAnchor' = null
    /\ history' = <<>>
    /\ lastOp' = Op("loadFile", <<"threw">>)
    /\ UNCHANGED <<events, initialEvents, baseTime, fileName, isDirty, future,
                   track, loadedBytes>>

\* the catch block of loadFile
loadFileCatch(message) ==
    /\ error' = <<message>>
    /\ lastOp' = Op("loadFile", <<"threw">>)
    /\ UNCHANGED <<events, initialEvents, baseTime, fileName, isDirty,
                   selectedIds, selectionAnchor, history, future,
                   track, loadedBytes>>

\* a load that leaves the undo and redo stacks as they are
loadFileResumeKeepingStacks(k) ==
    /\ k \in 1..Len(pending)
    /\ pending[k].kind = "load"
    /\ LET file == pending[k].file
           parsed == parseRec(file.bytes)
       IN  IF parsed.threw
           THEN loadFileCatch(parsed.message)
           ELSE LET editorEvents == recomputeTimeline(createEditorEvents(parsed.events))
                IN  /\ events' = editorEvents
                    /\ initialEvents' = editorEvents
                    /\ baseTime' = parsed.baseTime
                    /\ fileName' = <<file.name>>
                    /\ isDirty' = FALSE
                    /\ selectedIds' = {}
                    /\ selectionAnchor' = null
                    /\ track' = TrackFrom(editorEvents)
                    /\ loadedBytes' = file.bytes
                    /\ lastOp' = Op("loadFile", <<"ok">>)
                    /\ UNCHANGED <<error, history, future>>
    /\ loading' = FALSE
    /\ pending' = RemoveAt(pending, k)
    /\ UNCHANGED <<stamp, codec>>

\* after the await, for the k-th suspended call
loadFileResume(k) ==
    /\ k \in 1..Len(pending)
    /\ pending[k].kind = "load"
    /\ LET file == pending[k].file
           parsed == parseRec(file.bytes)
       IN  IF parsed.threw
           THEN loadFileCatch(parsed.message)
           ELSE LET editorEvents == recomputeTimeline(createEditorEvents(parsed.events))
                IN  /\ events' = editorEvents
                    /\ initialEvents' = editorEvents
                    /\ baseTime' = parsed.baseTime
                    /\ fileName' = <<file.name>>
                    /\ isDirty' = FALSE
                    /\ selectedIds' = {}
                    /\ selectionAnchor' = null
                    /\ history' = <<>>
                    /\ future' = <<>>
                    /\ track' = TrackFrom(editorEvents)
                    /\ loadedBytes' = file.bytes
                    /\ lastOp' = Op("loadFile", <<"ok">>)
                    /\ UNCHANGED error
    /\ loading' = FALSE
    /\ pending' = RemoveAt(pending, k)
    /\ UNCHANGED <<stamp, codec>>

\* ---- updateDelay, removeEvent -----------------------------------------
\* updateDelay without the `event.delay === normalized` test
updateDelayMutationAlways(id, value) ==
    LET normalized == sanitizeDelay(value)
        next == [i \in 1..Len(events) |->
                    IF events[i].id = id THEN [events[i] EXCEPT !.delay = normalized]
                    ELSE events[i]]
    IN  IF ~(\E i \in 1..Len(events) : events[i].id = id) THEN NoMutation
        ELSE Mutation(next)

updateDelayMutation(id, value) ==
    LET normalized == sanitizeDelay(value)
        didChange == \E i \in 1..Len(events) :
                        events[i].id = id /\ events[i].delay # normalized
        next == [i \in 1..Len(events) |->
                    IF events[i].id = id /\ events[i].delay # normalized
                    THEN [events[i] EXCEPT !.delay = normalized]
                    ELSE events[i]]
    IN  IF ~didChange THEN NoMutation ELSE Mutation(next)

updateDelay(id, value) ==
    /\ commitEvents(updateDelayMutation(id, value), FALSE)
    /\ lastOp' = Op("updateDelay", <<outcome(updateDelayMutation(id, value))>>)
    /\ UNCHANGED <<initialEvents, baseTime, fileName, loading, error, pending, stamp,
                   loadedBytes, codec>>

\* a removal that asks for an empty selection
removeEventMutationClearing(id) ==
    IF ~(\E i \in 1..Len(events) : events[i].id = id) THEN NoMutation
    ELSE MutationClearing(filterSeq(events, idsOf(events) \ {id}))

\* a removal without the `current.some(...)` test
removeEventMutationUntested(id) ==
    Mutation(filterSeq(events, idsOf(events) \ {id}))

removeEventMutation(id) ==
    IF ~(\E i \in 1..Len(events) : events[i].id = id) THEN NoMutation
    ELSE Mutation(filterSeq(events, idsOf(events) \ {id}))

removeEvent(id) ==
    /\ commitEvents(removeEventMutation(id), FALSE)
    /\ lastOp' = Op("removeEvent", <<outcome(removeEventMutation(id))>>)
    /\ UNCHANGED <<initialEvents, baseTime, fileName, loading, error, pending, stamp,
                   loadedBytes, codec>>

\* ---- resetChanges, exportRec ------------------------------------------
\* a reset that takes the working sequence as the new baseline
resetChangesRebasing ==
    /\ IF Len(initialEvents) = 0
       THEN /\ lastOp' = Op("resetChanges", <<"noop">>)
            /\ UNCHANGED <<events, initialEvents, isDirty, selectedIds, selectionAnchor,
                           history, future, track>>
       ELSE /\ initialEvents' = events
            /\ isDirty' = FALSE
            /\ selectedIds' = {}
            /\ selectionAnchor' = null
            /\ history' = <<>>
            /\ future' = <<>>
            /\ track' = TrackFrom(events)
            /\ lastOp' = Op("resetChanges", <<"reset">>)
            /\ UNCHANGED events
    /\ UNCHANGED <<baseTime, fileName, loading, error, pending, stamp,
                   loadedBytes, codec>>

resetChanges ==
    /\ IF Len(initialEvents) = 0
       THEN /\ lastOp' = Op("resetChanges", <<"noop">>)
            /\ UNCHANGED <<events, isDirty, selectedIds, selectionAnchor, history,
                           future, track>>
       ELSE /\ events' = recomputeTimeline(initialEvents)
            /\ isDirty' = FALSE
            /\ selectedIds' = {}
            /\ selectionAnchor' = null
            /\ history' = <<>>
            /\ future' = <<>>
            /\ track' = TrackFrom(recomputeTimeline(initialEvents))
            /\ lastOp' = Op("resetChanges", <<"reset">>)
    /\ UNCHANGED <<initialEvents, baseTime, fileName, loading, error, pending, stamp,
                   loadedBytes, codec>>

\* fileName.replace(/\.rec$/i, '') + '-edited.rec'; names are kept symbolic
editedName(name) == <<IF name = null THEN "macro" ELSE name[1], "-edited.rec">>

\* exportRec that forgets { baseTime }
exportResultUnseeded ==
    IF Len(events) = 0 THEN null
    ELSE <<[blob |-> encodeRec(cloneAsEncodable(events), NoOptions),
            fileName |-> editedName(fileName)]>>

\* the value exportRec returns: null (undefined), or <<[blob, fileName]>>
exportResult ==
    IF Len(events) = 0 THEN null
    ELSE <<[blob |-> encodeRec(cloneAsEncodable(events), WithBaseTime(baseTime)),
            fileName |-> editedName(fileName)]>>

exportRec ==
    /\ lastOp' = Op("exportRec", exportResult)
    /\ UNCHANGED <<storeVars, track, loadedBytes, codec>>

\* ---- selection ---------------------------------------------------------
intMin(a, b) == IF b < a THEN b ELSE a
intMax(a, b) == IF a < b THEN b ELSE a

\* ids of events[start..end], positions counted from 0
\* the loop of the range with `cursor < end`
rangeIdsOpen(start, end) ==
    {events[c + 1].id : c \in {x \in start..(end - 1) : x >= 0 /\ x < Len(events)}}

rangeIds(start, end) ==
    {events[c + 1].id : c \in {x \in start..end : x >= 0 /\ x < Len(events)}}

\* a toggle that never removes an id
toggleSelectionAddOnly(id, index, shift, meta) ==
    LET anchor == IF selectionAnchor = null THEN index ELSE selectionAnchor[1]
    IN  /\ IF shift /\ Len(events) > 0
           THEN LET start == IF anchor < index THEN (IF anchor > 0 THEN anchor ELSE 0)
                             ELSE (IF index > 0 THEN index ELSE 0)
                    hi == IF anchor > index THEN anchor ELSE index
                    end == IF hi < Len(events) - 1 THEN hi ELSE Len(events) - 1
                IN  /\ selectedIds' = (IF meta THEN selectedIds ELSE {}) \cup rangeIds(start, end)
                    /\ selectionAnchor' = IF selectionAnchor = null THEN <<index>>
                                          ELSE selectionAnchor
           ELSE LET next == selectedIds \cup {id}
                IN  /\ selectedIds' = next
                    /\ selectionAnchor' = IF next # {} THEN <<index>> ELSE null
        /\ lastOp' = Op("toggleSelection", <<shift, meta>>)
        /\ UNCHANGED <<events, initialEvents, baseTime, fileName, loading, error, isDirty,
                       history, future, pending, stamp, track, loadedBytes, codec>>

toggleSelection(id, index, shift, meta) ==
    LET anchor == IF selectionAnchor = null THEN index ELSE selectionAnchor[1]
    IN  /\ IF shift /\ Len(events) > 0
           THEN LET start == IF anchor < index THEN (IF anchor > 0 THEN anchor ELSE 0)
                             ELSE (IF index > 0 THEN index ELSE 0)
                    hi == IF anchor > index THEN anchor ELSE index
                    end == IF hi < Len(events) - 1 THEN hi ELSE Len(events) - 1
                IN  /\ selectedIds' = (IF meta THEN selectedIds ELSE {}) \cup rangeIds(start, end)
                    /\ selectionAnchor' = IF selectionAnchor = null THEN <<index>>
                                          ELSE selectionAnchor
           ELSE LET next == IF id \in selectedIds THEN selectedIds \ {id}
                            ELSE selectedIds \cup {id}
                IN  /\ selectedIds' = next
                    /\ selectionAnchor' = IF next # {} THEN <<index>> ELSE null
        /\ lastOp' = Op("toggleSelection", <<shift, meta>>)
        /\ UNCHANGED <<events, initialEvents, baseTime, fileName, loading, error, isDirty,
                       history, future, pending, stamp, track, loadedBytes, codec>>

selectAll ==
    /\ selectedIds' = idsOf(events)
    /\ selectionAnchor' = null
    /\ lastOp' = Op("selectAll", <<>>)
    /\ UNCHANGED <<events, initialEvents, baseTime, fileName, loading, error, isDirty,
                   history, future, pending, stamp, track, loadedBytes, codec>>

clearSelection ==
    /\ selectedIds' = {}
    /\ selectionAnchor' = null
    /\ lastOp' = Op("clearSelection", <<>>)
    /\ UNCHANGED <<events, initialEvents, baseTime, fileName, loading, error, isDirty,
                   history, future, pending, stamp, track, loadedBytes, codec>>

\* ---- batch edits -------------------------------------------------------
\* applyToSelection(updater), the updater given as the delay it returns for
\* (event, index), or null for "leave this event"
\* the map without its `selectedIds.has(event.id)` test
applyToSelectionMutationAll(updated) ==
    LET touched(i) == updated[i] # null
        next == [i \in 1..Len(events) |->
                    IF touched(i) THEN [events[i] EXCEPT !.delay = updated[i][1]]
                    ELSE events[i]]
    IN  IF ~(\E i \in 1..Len(events) : touched(i)) THEN NoMutation ELSE Mutation(next)

applyToSelectionMutation(updated) ==
    LET touched(i) == events[i].id \in selectedIds /\ updated[i] # null
        next == [i \in 1..Len(events) |->
                    IF touched(i) THEN [events[i] EXCEPT !.delay = updated[i][1]]
                    ELSE events[i]]
    IN  IF ~(\E i \in 1..Len(events) : touched(i)) THEN NoMutation ELSE Mutation(next)

applyToSelection(name, updated) ==
    /\ IF selectedIds = {}
       THEN /\ lastOp' = Op(name, <<"noop">>)
            /\ UNCHANGED <<events, history, future, isDirty, selectedIds,
                           selectionAnchor, track>>
       ELSE /\ commitEvents(applyToSelectionMutation(updated), FALSE)
            /\ lastOp' = Op(name, <<outcome(applyToSelectionMutation(updated))>>)
    /\ UNCHANGED <<initialEvents, baseTime, fileName, loading, error, pending, stamp,
                   loadedBytes, codec>>

applyDelayUpdater(value) ==
    LET normalized == sanitizeDelay(value)
    IN  [i \in 1..Len(events) |->
            IF events[i].delay = normalized THEN null ELSE <<normalized>>]

applyDelayToSelection(value) ==
    applyToSelection("applyDelayToSelection", applyDelayUpdater(value))

\* a nudge that leaves a delay alone when the sum is negative
addDelayUpdaterRefusing(delta) ==
    LET deltaRounded == mathRound(delta)
    IN  [i \in 1..Len(events) |->
            LET sum == jsAdd(events[i].delay, deltaRounded)
                nextDelay == sanitizeDelay(sum)
            IN  IF nextDelay = events[i].delay \/ (isFinite(sum) /\ Lt(sum, I(0)))
                THEN null ELSE <<nextDelay>>]

addDelayUpdater(delta) ==
    LET deltaRounded == mathRound(delta)
    IN  [i \in 1..Len(events) |->
            LET nextDelay == sanitizeDelay(jsAdd(events[i].delay, deltaRounded))
            IN  IF nextDelay = events[i].delay THEN null ELSE <<nextDelay>>]

addDelayToSelection(delta) ==
    applyToSelection("addDelayToSelection", addDelayUpdater(delta))

clampUpdater(threshold) ==
    LET limit == mathMax(I(0), mathRound(threshold))
    IN  [i \in 1..Len(events) |->
            IF i - 1 = 0 THEN null
            ELSE IF events[i].delay = I(0) \/ ~Lt(events[i].delay, limit) THEN null
            ELSE <<I(0)>>]

clampSmallDelays(threshold) ==
    applyToSelection("clampSmallDelays", clampUpdater(threshold))

\* the filter without its `!`: the selected events are the ones kept
deleteSelectedMutationInverted ==
    LET next == filterSeq(events, selectedIds)
    IN  IF Len(next) = Len(events) THEN NoMutation ELSE MutationClearing(next)

deleteSelectedMutation ==
    LET next == filterSeq(events, idsOf(events) \ selectedIds)
    IN  IF Len(next) = Len(events) THEN NoMutation ELSE MutationClearing(next)

deleteSelected ==
    /\ IF selectedIds = {}
       THEN /\ lastOp' = Op("deleteSelected", <<"noop">>)
            /\ UNCHANGED <<events, history, future, isDirty, selectedIds,
                           selectionAnchor, track>>
       ELSE /\ commitEvents(deleteSelectedMutation, TRUE)
            /\ lastOp' = Op("deleteSelected", <<outcome(deleteSelectedMutation)>>)
    /\ UNCHANGED <<initialEvents, baseTime, fileName, loading, error, pending, stamp,
                   loadedBytes, codec>>

\* ---- insertEvents, mergeFile ------------------------------------------
\* a template is { message, paramL, paramH, hwnd } with an optional delay:
\* delay is null or <<d>>
Template(message, paramL, paramH, hwnd, delay) ==
    [message |-> message, paramL |-> paramL, paramH |-> paramH, hwnd |-> hwnd,
     delay |-> delay]

\* an insertion that gives delayTotal to every inserted event
insertEventsMutationOneDelay(index, newEvents, delayTotal) ==
    LET clampedIndex == intMax(0, intMin(index, Len(events)))
        eventsToAdd == [j \in 1..Len(newEvents) |->
            [id |-> insertedId(stamp, j - 1),
             message |-> newEvents[j].message,
             paramL |-> newEvents[j].paramL,
             paramH |-> newEvents[j].paramH,
             hwnd |-> newEvents[j].hwnd,
             time |-> I(0),
             delay |-> delayTotal]]
    IN  Mutation(SubSeq(events, 1, clampedIndex) \o eventsToAdd
                 \o SubSeq(events, clampedIndex + 1, Len(events)))

insertEventsMutation(index, newEvents, delayTotal) ==
    LET clampedIndex == intMax(0, intMin(index, Len(events)))
        eventsToAdd == [j \in 1..Len(newEvents) |->
            [id |-> insertedId(stamp, j - 1),
             message |-> newEvents[j].message,
             paramL |-> newEvents[j].paramL,
             paramH |-> newEvents[j].paramH,
             hwnd |-> newEvents[j].hwnd,
             time |-> I(0),
             delay |-> IF j - 1 = 0 THEN delayTotal
                       ELSE IF newEvents[j].delay = null THEN I(0)
                       ELSE newEvents[j].delay[1]]]
    IN  Mutation(SubSeq(events, 1, clampedIndex) \o eventsToAdd
                 \o SubSeq(events, clampedIndex + 1, Len(events)))

insertEvents(index, newEvents, delayTotal) ==
    /\ commitEvents(insertEventsMutation(index, newEvents, delayTotal), FALSE)
    /\ stamp' = IF Len(newEvents) > 0 THEN stamp + 1 ELSE stamp
    /\ lastOp' = Op("insertEvents", <<"committed">>)
    /\ UNCHANGED <<initialEvents, baseTime, fileName, loading, error, pending,
                   loadedBytes, codec>>

\* up to the await; events.length is the one of the render that made the call
mergeFileStart(file) ==
    /\ error' = null
    /\ loading' = TRUE
    /\ pending' = Append(pending, [kind |-> "merge", file |-> file, index |-> Len(events)])
    /\ lastOp' = Op("mergeFileStart", <<>>)
    /\ UNCHANGED <<events, initialEvents, baseTime, fileName, isDirty, selectedIds,
                   selectionAnchor, history, future, stamp, track, loadedBytes, codec>>

\* the EditorEvents of createEditorEvents, as insertEvents reads them
asTemplates(editorEvents) ==
    [j \in 1..Len(editorEvents) |->
        Template(editorEvents[j].message, editorEvents[j].paramL, editorEvents[j].paramH,
                 editorEvents[j].hwnd, <<editorEvents[j].delay>>)]

\* after the await, for the k-th suspended call
mergeFileResume(k) ==
    /\ k \in 1..Len(pending)
    /\ pending[k].kind = "merge"
    /\ LET file == pending[k].file
           parsed == parseRec(file.bytes)
       IN  IF parsed.threw
           THEN /\ error' = <<parsed.message>>
                /\ lastOp' = Op("mergeFile", <<"threw">>)
                /\ UNCHANGED <<events, isDirty, selectedIds, selectionAnchor, history,
                               future, stamp, track>>
           ELSE LET newEvents == asTemplates(createEditorEvents(parsed.events))
                IN  /\ commitEvents(insertEventsMutation(pending[k].index, newEvents, I(0)),
                                    FALSE)
                    /\ stamp' = IF Len(newEvents) > 0 THEN stamp + 1 ELSE stamp
                    /\ lastOp' = Op("mergeFile", <<"ok">>)
                    /\ UNCHANGED error
    /\ loading' = FALSE
    /\ pending' = RemoveAt(pending, k)
    /\ UNCHANGED <<initialEvents, baseTime, fileName, loadedBytes, codec>>

\* ---- undo, redo --------------------------------------------------------
\* an undo that leaves the selection and the anchor as they are
undoKeepingSelection ==
    /\ IF Len(history) = 0
       THEN /\ lastOp' = Op("undo", <<"noop">>)
            /\ UNCHANGED <<events, history, future, selectedIds, selectionAnchor,
                           isDirty, track>>
       ELSE LET snapshot == history[Len(history)]
            IN  /\ future' = pushLimited(future, events)
                /\ events' = recomputeTimeline(snapshot)
                /\ isDirty' = TRUE
                /\ history' = SubSeq(history, 1, Len(history) - 1)
                /\ track' = TrackUndo
                /\ lastOp' = Op("undo", <<"undone">>)
                /\ UNCHANGED <<selectedIds, selectionAnchor>>
    /\ UNCHANGED <<initialEvents, baseTime, fileName, loading, error, pending, stamp,
                   loadedBytes, codec>>

\* an undo that returns prevHistory instead of prevHistory.slice(0, -1)
undoWithoutPop ==
    /\ IF Len(history) = 0
       THEN /\ lastOp' = Op("undo", <<"noop">>)
            /\ UNCHANGED <<events, history, future, selectedIds, selectionAnchor,
                           isDirty, track>>
       ELSE LET snapshot == history[Len(history)]
            IN  /\ future' = pushLimited(future, events)
                /\ events' = recomputeTimeline(snapshot)
                /\ selectedIds' = {}
                /\ selectionAnchor' = null
                /\ isDirty' = TRUE
                /\ history' = history
                /\ track' = TrackUndo
                /\ lastOp' = Op("undo", <<"undone">>)
    /\ UNCHANGED <<initialEvents, baseTime, fileName, loading, error, pending, stamp,
                   loadedBytes, codec>>

undo ==
    /\ IF Len(history) = 0
       THEN /\ lastOp' = Op("undo", <<"noop">>)
            /\ UNCHANGED <<events, history, future, selectedIds, selectionAnchor,
                           isDirty, track>>
       ELSE LET snapshot == history[Len(history)]
            IN  /\ future' = pushLimited(future, events)
                /\ events' = recomputeTimeline(snapshot)
                /\ selectedIds' = {}
                /\ selectionAnchor' = null
                /\ isDirty' = TRUE
                /\ history' = SubSeq(history, 1, Len(history) - 1)
                /\ track' = TrackUndo
                /\ lastOp' = Op("undo", <<"undone">>)
    /\ UNCHANGED <<initialEvents, baseTime, fileName, loading, error, pending, stamp,
                   loadedBytes, codec>>

\* a redo that marks the store dirty even when there is nothing to redo
redoAlwaysDirty ==
    /\ IF Len(future) = 0
       THEN /\ lastOp' = Op("redo", <<"noop">>)
            /\ isDirty' = TRUE
            /\ UNCHANGED <<events, history, future, selectedIds, selectionAnchor,
                           track>>
       ELSE LET snapshot == future[Len(future)]
            IN  /\ history' = pushLimited(history, events)
                /\ events' = recomputeTimeline(snapshot)
                /\ selectedIds' = {}
                /\ selectionAnchor' = null
                /\ isDirty' = TRUE
                /\ future' = SubSeq(future, 1, Len(future) - 1)
                /\ track' = TrackRedo
                /\ lastOp' = Op("redo", <<"redone">>)
    /\ UNCHANGED <<initialEvents, baseTime, fileName, loading, error, pending, stamp,
                   loadedBytes, codec>>

redo ==
    /\ IF Len(future) = 0
       THEN /\ lastOp' = Op("redo", <<"noop">>)
            /\ UNCHANGED <<events, history, future, selectedIds, selectionAnchor,
                           isDirty, track>>
       ELSE LET snapshot == future[Len(future)]
            IN  /\ history' = pushLimited(history, events)
                /\ events' = recomputeTimeline(snapshot)
                /\ selectedIds' = {}
                /\ selectionAnchor' = null
                /\ isDirty' = TRUE
                /\ future' = SubSeq(future, 1, Len(future) - 1)
                /\ track' = TrackRedo
                /\ lastOp' = Op("redo", <<"redone">>)
    /\ UNCHANGED <<initialEvents, baseTime, fileName, loading, error, pending, stamp,
                   loadedBytes, codec>>

\* ---- direct use of the codec -------------------------------------------
CodecIdle == [pc |-> "idle", buffer |-> <<>>, parsed |-> <<>>, events |-> <<>>,
              options |-> NoOptions, bytes |-> <<>>]
CodecParseInput(buffer) == [CodecIdle EXCEPT !.pc = "buffer", !.buffer = buffer]
CodecEncodeInput(evs, options) ==
    [CodecIdle EXCEPT !.pc = "events", !.events = evs, !.options = options]

\* parsed = parseRec(buffer)
codecParse ==
    /\ codec.pc = "buffer"
    /\ codec' = [codec EXCEPT !.pc = "parsed", !.parsed = parseRec(codec.buffer)]
    /\ UNCHANGED <<storeVars, ghostVars>>

\* encodeRec(cloneAsEncodable(parsed.events), { baseTime: parsed.baseTime }),
\* as in recParser.test.ts
codecReencode ==
    /\ codec.pc = "parsed"
    /\ ~codec.parsed.threw
    /\ codec' = [codec EXCEPT
                    !.pc = "reencoded",
                    !.events = cloneAsEncodable(codec.parsed.events),
                    !.options = WithBaseTime(codec.parsed.baseTime),
                    !.bytes = encodeRec(cloneAsEncodable(codec.parsed.events),
                                        WithBaseTime(codec.parsed.baseTime))]
    /\ UNCHANGED <<storeVars, ghostVars>>

\* bytes = encodeRec(events, options)
codecEncode ==
    /\ codec.pc = "events"
    /\ codec' = [codec EXCEPT !.pc = "encoded",
                              !.bytes = encodeRec(codec.events, codec.options)]
    /\ UNCHANGED <<storeVars, ghostVars>>

\* parsed = parseRec(bytes), of the bytes encodeRec returned
codecDecode ==
    /\ codec.pc = "encoded"
    /\ codec' = [codec EXCEPT !.pc = "decoded", !.parsed = parseRec(codec.bytes)]
    /\ UNCHANGED <<storeVars, ghostVars>>

\* ------------------------------------------------------------------------
\* Bounds and inputs
\* ------------------------------------------------------------------------
MaxLen == 3        \* longest working sequence explored
MaxDepth == 1      \* deepest undo stack explored by Spec
MaxStamp == 1      \* insertEvents calls that add events, per behaviour of Spec
MaxPending == 2    \* file reads in flight at once
MaxRecs == 2       \* records per buffer given to the codec directly
MaxTimelineLen == 3 \* events per sequence given to recomputeTimeline directly
MaxMut == 52       \* commits in a row explored by SpecDeep
MaxSelDepth == 2   \* snapshots on the undo stack in SpecSelect
MaxAsyncLen == 3   \* longest working sequence explored by SpecAsync
MaxAsyncDepth == 2 \* deepest undo stack explored by SpecAsync
MaxAsyncStamp == 2 \* insertEvents calls that insert, in SpecAsync
MaxNudgeDepth == 2 \* snapshots on the undo stack in SpecNudge

\* little-endian words
Word0 == <<0, 0, 0, 0>>
Word7 == <<7, 0, 0, 0>>
Word10 == <<16, 0, 0, 0>>
Word200 == <<0, 2, 0, 0>>
Word201 == <<1, 2, 0, 0>>
Word10001 == <<1, 0, 1, 0>>
Word15 == <<21, 0, 0, 0>>
Word35 == <<53, 0, 0, 0>>
WordFFFFFFF0 == <<240, 255, 255, 255>>
WordFFFFFFFF == <<255, 255, 255, 255>>

RecordBytes(message, paramL, paramH, absoluteTime, hwnd) ==
    message \o paramL \o paramH \o absoluteTime \o hwnd

\* the files offered to loadFile and mergeFile: two records whose timestamps
\* wrap around 2^32, the first of them alone, no record, and a stray tail
FileWrap ==
    [name |-> "wrap.rec",
     bytes |-> RecordBytes(Word200, Word0, Word10001, WordFFFFFFF0, Word7)
            \o RecordBytes(Word201, Word0, Word10001, Word10, Word7)]
FileOne ==
    [name |-> "one.rec",
     bytes |-> RecordBytes(Word200, Word0, Word10001, WordFFFFFFF0, Word7)]
FileEmpty == [name |-> "empty.rec", bytes |-> <<>>]
FileBad == [name |-> "bad.rec", bytes |-> FileOne.bytes \o <<1, 2, 3>>]
LoadFiles == {FileWrap, FileEmpty, FileBad}
MergeFiles == {FileOne, FileEmpty, FileBad}

\* values typed into a delay field: -5, 4.5, 2^32 + 5 and NaN
DelayInputs == {I(-5), Half(4), Fin(LIMB, 5), NaN, PosInf}
\* values passed as delayTotal: parseInt(addDelay, 10) || 0
DelayTotalInputs == {I(-5), I(5)}
\* values of the batch tools
BatchInputs == {I(5), Fin(LIMB, 5)}
DeltaInputs == {I(10), I(-10)}
ThresholdInputs == {I(5), I(32)}

\* what insertEvents is given: nothing, one event, and a pair whose second
\* event carries its own delay
OneTemplate == <<Template(I(513), I(0), I(0), I(7), null)>>
KeyTemplates == <<Template(I(256), I(65), I(0), I(7), null),
                  Template(I(257), I(65), I(0), I(7), <<I(5)>>)>>
TemplateInputs == {<<>>, OneTemplate, KeyTemplates}

\* insertion indexes: before the start, inside, past the end
IndexInputs == {-1, 1, Len(events) + 1}

\* ids a caller can name: those on screen, and one that is not
AbsentId == <<"new", 0, 0>>
IdInputs == idsOf(events) \cup {AbsentId}

\* exploration stays within the bounds
Bounded ==
    /\ Len(events') <= MaxLen
    /\ Len(history') <= MaxDepth
    /\ stamp' <= MaxStamp + 1
    /\ Len(pending') <= MaxPending

\* Spec explores the behaviours in which a file read resolves before the
\* next call is made
Quiet == pending = <<>>

StoreInit ==
    /\ events = <<>>
    /\ initialEvents = <<>>
    /\ baseTime = I(0)
    /\ fileName = null
    /\ loading = FALSE
    /\ error = null
    /\ isDirty = FALSE
    /\ selectedIds = {}
    /\ selectionAnchor = null
    /\ history = <<>>
    /\ future = <<>>
    /\ pending = <<>>
    /\ stamp = 1
    /\ lastOp = Op("init", <<>>)
    /\ track = TrackFrom(<<>>)
    /\ loadedBytes = <<>>

Init ==
    /\ StoreInit
    /\ codec = CodecIdle

LoadFileStart == \E file \in LoadFiles : Quiet /\ loadFileStart(file) /\ Bounded
LoadFileResume == \E k \in 1..Len(pending) : loadFileResume(k) /\ Bounded
MergeFileStart == \E file \in MergeFiles : Quiet /\ mergeFileStart(file) /\ Bounded
MergeFileResume == \E k \in 1..Len(pending) : mergeFileResume(k) /\ Bounded
UpdateDelay ==
    \E id \in IdInputs, value \in DelayInputs : Quiet /\ updateDelay(id, value) /\ Bounded
RemoveEvent == \E id \in IdInputs : Quiet /\ removeEvent(id) /\ Bounded
InsertEvents ==
    \E index \in IndexInputs, newEvents \in TemplateInputs,
       delayTotal \in DelayTotalInputs :
        Quiet /\ insertEvents(index, newEvents, delayTotal) /\ Bounded
ResetChanges == Quiet /\ resetChanges
ExportRec == Quiet /\ exportRec
ToggleSelection ==
    \E index \in 0..(Len(events) - 1), shift \in BOOLEAN, meta \in BOOLEAN :
        Quiet /\ toggleSelection(events[index + 1].id, index, shift, meta)
SelectAll == Quiet /\ selectAll
ClearSelection == Quiet /\ clearSelection
ApplyDelayToSelection ==
    \E value \in BatchInputs : Quiet /\ applyDelayToSelection(value) /\ Bounded
AddDelayToSelection ==
    \E delta \in DeltaInputs : Quiet /\ addDelayToSelection(delta) /\ Bounded
ClampSmallDelays ==
    \E threshold \in ThresholdInputs : Quiet /\ clampSmallDelays(threshold) /\ Bounded
DeleteSelected == Quiet /\ deleteSelected /\ Bounded
Undo == Quiet /\ undo
Redo == Quiet /\ redo

Next ==
    \/ LoadFileStart
    \/ LoadFileResume
    \/ MergeFileStart
    \/ MergeFileResume
    \/ UpdateDelay
    \/ RemoveEvent
    \/ InsertEvents
    \/ ResetChanges
    \/ ExportRec
    \/ ToggleSelection
    \/ SelectAll
    \/ ClearSelection
    \/ ApplyDelayToSelection
    \/ AddDelayToSelection
    \/ ClampSmallDelays
    \/ DeleteSelected
    \/ Undo
    \/ Redo

Spec == Init /\ [][Next]_vars

\* ---- long runs of edits ---------------------------------------------
\* SpecDeep loads FileWrap and then makes one run of commits, the k-th one
\* chosen by k so that every commit leaves a sequence not seen before:
\* set the last delay to k, insert an event with delay k at the end, remove
\* the event before the last.  Then come the undos and, once no undo is
\* left, the redos.
commitsSoFar == Len(track.log) - 1
Editing ==
    /\ Quiet
    /\ Len(initialEvents) > 0
    /\ track.ok /\ track.u = 0 /\ track.r = 0
    /\ commitsSoFar < MaxMut

DeepLoadStart == lastOp.op = "init" /\ loadFileStart(FileWrap)
DeepLoadResume == loadFileResume(1)
DeepUpdateDelay ==
    /\ Editing
    /\ (commitsSoFar + 1) % 3 = 1
    /\ updateDelay(events[Len(events)].id, I(commitsSoFar + 1))
DeepInsertEvents ==
    /\ Editing
    /\ (commitsSoFar + 1) % 3 = 2
    /\ insertEvents(Len(events), OneTemplate, I(commitsSoFar + 1))
DeepRemoveEvent ==
    /\ Editing
    /\ (commitsSoFar + 1) % 3 = 0
    /\ removeEvent(events[Len(events) - 1].id)
DeepUndo == Quiet /\ track.ok /\ track.r = 0 /\ undo
DeepRedo == Quiet /\ track.ok /\ (Len(history) = 0 \/ track.r > 0) /\ redo

DeepNext ==
    \/ DeepLoadStart
    \/ DeepLoadResume
    \/ DeepUpdateDelay
    \/ DeepInsertEvents
    \/ DeepRemoveEvent
    \/ DeepUndo
    \/ DeepRedo

SpecDeep == Init /\ [][DeepNext]_vars

\* ---- selecting rows of a three-event macro --------------------------
\* SpecSelect loads a file of three records once and then selects, removes,
\* deletes, undoes and redoes.
FileThree ==
    [name |-> "three.rec",
     bytes |-> FileWrap.bytes \o RecordBytes(Word200, Word0, Word10001, Word200, Word7)]

SelBounded == Len(history') <= MaxSelDepth

SelLoadStart == lastOp.op = "init" /\ loadFileStart(FileThree)
SelLoadResume == loadFileResume(1)
SelToggleSelection ==
    \E index \in 0..(Len(events) - 1), shift \in BOOLEAN, meta \in BOOLEAN :
        Quiet /\ toggleSelection(events[index + 1].id, index, shift, meta)
SelSelectAll == Quiet /\ Len(events) > 0 /\ selectAll
SelClearSelection == Quiet /\ Len(events) > 0 /\ clearSelection
SelRemoveEvent == \E id \in IdInputs : Quiet /\ removeEvent(id) /\ SelBounded
SelDeleteSelected == Quiet /\ deleteSelected /\ SelBounded
SelUndo == Quiet /\ undo
SelRedo == Quiet /\ redo

SelNext ==
    \/ SelLoadStart
    \/ SelLoadResume
    \/ SelToggleSelection
    \/ SelSelectAll
    \/ SelClearSelection
    \/ SelRemoveEvent
    \/ SelDeleteSelected
    \/ SelUndo
    \/ SelRedo

SpecSelect == Init /\ [][SelNext]_vars

\* ---- batch delay edits of a selection of the three-record file ----
BatchLoadStart == lastOp.op = "init" /\ loadFileStart(FileThree)
BatchLoadResume == loadFileResume(1)
BatchToggleSelection ==
    \E i \in 1..Len(events) :
        Quiet /\ toggleSelection(events[i].id, i - 1, FALSE, TRUE)
BatchSelectAll == Quiet /\ Len(events) > 0 /\ selectAll
BatchApplyDelayToSelection ==
    \E value \in BatchInputs : Quiet /\ applyDelayToSelection(value) /\ SelBounded
BatchUndo == Quiet /\ undo
BatchRedo == Quiet /\ redo

BatchNext ==
    \/ BatchLoadStart
    \/ BatchLoadResume
    \/ BatchToggleSelection
    \/ BatchSelectAll
    \/ BatchApplyDelayToSelection
    \/ BatchUndo
    \/ BatchRedo

SpecBatch == Init /\ [][BatchNext]_vars

\* ---- nudging the delays of a selection ----------------------------------
\* SpecNudge loads a file of three records once and then selects rows and
\* nudges their delays.
\* three records with delays 5 and 32 between them
FileJitter ==
    [name |-> "jitter.rec",
     bytes |-> RecordBytes(Word200, Word0, Word10001, Word10, Word7)
            \o RecordBytes(Word201, Word0, Word10001, Word15, Word7)
            \o RecordBytes(Word200, Word0, Word10001, Word35, Word7)]

\* the deltas of the + and - shortcuts, and 2^32 - 6 typed into the field
NudgeInputs == {I(10), I(-10), Fin(LIMB - 1, LIMB - 6)}

NudgeLoadStart == lastOp.op = "init" /\ loadFileStart(FileJitter)
NudgeLoadResume == loadFileResume(1)
NudgeToggleSelection ==
    \E i \in 1..Len(events) :
        Quiet /\ toggleSelection(events[i].id, i - 1, FALSE, TRUE)
NudgeAddDelayToSelection ==
    \E delta \in NudgeInputs :
        Quiet /\ addDelayToSelection(delta) /\ Len(history') <= MaxNudgeDepth

NudgeNext ==
    \/ NudgeLoadStart
    \/ NudgeLoadResume
    \/ NudgeToggleSelection
    \/ NudgeAddDelayToSelection

SpecNudge == Init /\ [][NudgeNext]_vars

\* ---- file reads that overlap other calls ------------------------------
\* SpecAsync lets calls be made while file reads are still suspended at
\* `await file.arrayBuffer()`, and lets the reads resolve in any order.
AsyncBounded ==
    /\ Len(events') <= MaxAsyncLen
    /\ Len(history') <= MaxAsyncDepth
    /\ Len(pending') <= MaxPending
    /\ stamp' <= MaxAsyncStamp + 1

AsyncLoadStart == \E file \in {FileWrap, FileBad} : loadFileStart(file) /\ AsyncBounded
AsyncLoadResume == \E k \in 1..Len(pending) : loadFileResume(k) /\ AsyncBounded
AsyncMergeStart == \E file \in MergeFiles : mergeFileStart(file) /\ AsyncBounded
AsyncMergeResume == \E k \in 1..Len(pending) : mergeFileResume(k) /\ AsyncBounded
AsyncInsertEvents == insertEvents(Len(events), OneTemplate, I(5)) /\ AsyncBounded
AsyncRemoveEvent == \E id \in idsOf(events) : removeEvent(id) /\ AsyncBounded

AsyncNext ==
    \/ AsyncLoadStart
    \/ AsyncLoadResume
    \/ AsyncMergeStart
    \/ AsyncMergeResume
    \/ AsyncInsertEvents
    \/ AsyncRemoveEvent

SpecAsync == Init /\ [][AsyncNext]_vars

\* ---- the codec on its own ---------------------------------------------
RECURSIVE Flatten(_)
Flatten(seqs) == IF Len(seqs) = 0 THEN <<>> ELSE Head(seqs) \o Flatten(Tail(seqs))

SeqsUpTo(S, n) == UNION {[1..k -> S] : k \in 0..n}

\* records over a few field values, among them timestamps that wrap
CodecRecords ==
    {RecordBytes(m, Word0, Word10001, t, h) :
        m \in {Word200, WordFFFFFFFF}, t \in {Word0, Word10, WordFFFFFFF0, WordFFFFFFFF},
        h \in {Word0, Word7}}
\* stray bytes after the last record
CodecTails == {<<>>, <<1>>, <<1, 2, 3, 4, 5, 6, 7, 8, 9, 10, 11, 12, 13, 14, 15, 16, 17, 18, 19>>}
CodecBuffers == {Flatten(rs) \o tail : rs \in SeqsUpTo(CodecRecords, MaxRecs), tail \in CodecTails}

\* events handed to encodeRec: delays that are negative, fractional, out of
\* range or not numbers, fields outside the unsigned 32-bit range
CodecEvents ==
    {[message |-> m, paramL |-> I(0), paramH |-> I(65537), delay |-> d, hwnd |-> I(7)] :
        m \in {I(512), I(-1)},
        d \in {I(0), I(32), I(-5), Half(4), Fin(LIMB - 1, LIMB - 1), Fin(LIMB, 5), NaN}}
CodecOptions == {NoOptions, WithBaseTime(Fin(LIMB - 1, LIMB - 16)), WithBaseTime(Fin(LIMB, 16)),
                 WithBaseTime(I(-1))}

CodecInit ==
    /\ StoreInit
    /\ codec \in {CodecParseInput(b) : b \in CodecBuffers}
               \cup {CodecEncodeInput(evs, o) :
                        evs \in SeqsUpTo(CodecEvents, MaxRecs), o \in CodecOptions}

CodecNext ==
    \/ codecParse
    \/ codecReencode
    \/ codecEncode
    \/ codecDecode

SpecCodec == CodecInit /\ [][CodecNext]_vars

\* ---- the timeline normalizer on its own ---------------------------------
\* events as a mutator may hand them to recomputeTimeline: delays that are
\* negative, fractional, out of range or not numbers, times that are stale
TimelineEvent(i, delay, time) ==
    [id |-> <<"ev", i>>, message |-> I(512 + i), paramL |-> I(i), paramH |-> I(0),
     hwnd |-> I(7), delay |-> delay, time |-> time]
TimelineInputs ==
    {[i \in 1..Len(c) |-> TimelineEvent(i, c[i][1], c[i][2])] :
        c \in SeqsUpTo((DelayInputs \cup {I(32)}) \X {I(0), I(99)}, MaxTimelineLen)}
TimelineInput(evs) == [pc |-> "timeline", events |-> evs, once |-> <<>>, twice |-> <<>>]

\* once = recomputeTimeline(events)
timelineNormalize ==
    /\ codec.pc = "timeline"
    /\ codec' = [codec EXCEPT !.pc = "normalized", !.once = recomputeTimeline(codec.events)]
    /\ UNCHANGED <<storeVars, ghostVars>>

\* twice = recomputeTimeline(once)
timelineNormalizeAgain ==
    /\ codec.pc = "normalized"
    /\ codec' = [codec EXCEPT !.pc = "renormalized", !.twice = recomputeTimeline(codec.once)]
    /\ UNCHANGED <<storeVars, ghostVars>>

TimelineInit ==
    /\ StoreInit
    /\ codec \in {TimelineInput(evs) : evs \in TimelineInputs}

TimelineNext ==
    \/ timelineNormalize
    \/ timelineNormalizeAgain

SpecTimeline == TimelineInit /\ [][TimelineNext]_vars

\* ------------------------------------------------------------------------
\* Properties
\* ------------------------------------------------------------------------

\* C1: re-encoding what parseRec returned, seeded with the parsed baseTime,
\* gives back the buffer byte for byte, for every buffer of whole records
\* (the empty one included), also when consecutive timestamps wrap.
CodecRoundTrip ==
    codec.pc = "reencoded" => codec.bytes = codec.buffer

\* a two-record buffer whose second timestamp is below the first was
\* re-encoded
CodecRoundTripWitness ==
    /\ codec.pc = "reencoded"
    /\ Len(codec.buffer) = 40
    /\ codec.parsed.baseTime = Fin(LIMB - 1, LIMB - 16)
    /\ codec.parsed.events[2].delay = I(32)

\* C10: parseRec throws exactly when the length is not a multiple of 20; the
\* message names the length and no events are returned; the empty buffer
\* parses to no events and baseTime 0.
ParseRecLengthCheck ==
    codec.pc = "parsed" =>
        /\ codec.parsed.threw <=> (Len(codec.buffer) % 20 # 0)
        /\ codec.parsed.threw =>
                /\ codec.parsed.message[2] = Len(codec.buffer)
                /\ "events" \notin DOMAIN codec.parsed
        /\ ~codec.parsed.threw => Len(codec.parsed.events) * 20 = Len(codec.buffer)
        /\ Len(codec.buffer) = 0 =>
                /\ ~codec.parsed.threw
                /\ codec.parsed.events = <<>>
                /\ codec.parsed.baseTime = I(0)

\* what exportRec would return now, as bytes
exportedBytes == IF exportResult = null THEN <<>> ELSE exportResult[1].blob

\* C2: after a successful load of a non-empty file, exportRec returns the
\* loaded bytes when nothing was edited since, after a reset, and after every
\* edit made since the load was undone.
StoreRoundTrip ==
    Len(loadedBytes) > 0 =>
        /\ (lastOp.op = "loadFile" /\ lastOp.out = <<"ok">>) => exportedBytes = loadedBytes
        /\ (lastOp.op = "resetChanges" /\ lastOp.out = <<"reset">>) =>
                exportedBytes = loadedBytes
        /\ (lastOp.op = "undo" /\ track.ok /\ track.r = 0
                /\ track.u = Len(track.log) - 1) => exportedBytes = loadedBytes

\* a loaded file was edited and the edit undone
StoreRoundTripWitness ==
    /\ Len(loadedBytes) > 0
    /\ lastOp.op = "undo"
    /\ track.ok /\ track.r = 0 /\ track.u = Len(track.log) - 1 /\ track.u >= 1
    /\ exportedBytes = FileWrap.bytes

\* C3: the working sequence always has delay[0] = 0 = time[0], and for every
\* later event an integer delay in [0, 2^32-1] and time = previous time + delay.
TimelineInvariant ==
    Len(events) > 0 =>
        /\ events[1].delay = I(0)
        /\ events[1].time = I(0)
        /\ \A i \in 2..Len(events) :
                /\ events[i].delay.k = "fin" /\ ~events[i].delay.half
                /\ events[i].delay.hi >= 0 /\ events[i].delay.hi < 65536
                /\ events[i].time = Plus(events[i - 1].time, events[i].delay)
                /\ ~Lt(events[i].time, events[i - 1].time)

\* the first event was removed and the event that had delay 32 is now first
TimelineInvariantWitness ==
    /\ lastOp.op = "removeEvent"
    /\ lastOp.out = <<"committed">>
    /\ Len(events) >= 1
    /\ Len(initialEvents) = 2
    /\ events[1].id = initialEvents[2].id
    /\ history[Len(history)][2].delay = I(32)

\* C4: no two events of the working sequence share an id, merging a file
\* whose parse yields the ids already present included; delay edits change
\* no id.
DelayEdits == {"updateDelay", "applyDelayToSelection", "addDelayToSelection",
               "clampSmallDelays"}
idSeq(evs) == [i \in 1..Len(evs) |-> evs[i].id]
IdsUnique ==
    /\ [](\A i, j \in 1..Len(events) : i # j => events[i].id # events[j].id)
    /\ [][lastOp'.op \in DelayEdits => idSeq(events') = idSeq(events)]_vars

\* FileOne was merged into the loaded FileWrap: its only record is FileWrap's
\* first one, for which createEditorEvents builds the id already present
IdsUniqueWitness ==
    /\ lastOp.op = "mergeFile"
    /\ lastOp.out = <<"ok">>
    /\ Len(events) = 3
    /\ events[1].id = createEditorEvents(parseRec(FileOne.bytes).events)[1].id
    /\ events[3].message = events[1].message
    /\ events[3].id # events[1].id

\* C5: n commits (n <= 50) from an empty history, each changing the
\* sequence, then n undos: the working sequence is the one before the first
\* commit; then n redos: it is the one after the last commit.
UndoRedoInverse ==
    (track.ok /\ commitsSoFar >= 1 /\ commitsSoFar <= 50 /\ track.u = commitsSoFar) =>
        /\ track.r = 0 => events = track.log[1]
        /\ track.r = commitsSoFar => events = track.log[commitsSoFar + 1]

\* 50 commits were undone and redone
UndoRedoInverseWitness ==
    /\ track.ok
    /\ commitsSoFar = 50
    /\ track.u = 50
    /\ track.r = 50
    /\ lastOp.op = "redo"
    /\ track.log[1] # track.log[51]

\* C6: an edit whose normalized result equals the current sequence pushes no
\* history entry and leaves the redo stack and the dirty flag as they were.
Edits == {"updateDelay", "removeEvent", "insertEvents", "mergeFile",
          "applyDelayToSelection", "addDelayToSelection", "clampSmallDelays",
          "deleteSelected"}
IdenticalResultIsNoOp ==
    [][(lastOp'.op \in Edits /\ events' = events) =>
            UNCHANGED <<history, future, isDirty>>]_vars

\* C7: updateDelay(id, v) with id absent, or with sanitizeDelay(v) equal to
\* the event's delay, changes neither the working sequence, the history, the
\* redo stack, the selection nor the dirty flag.
NoOpSetDelay ==
    [][lastOp'.op = "updateDelay" =>
        \A id \in IdInputs, v \in DelayInputs :
            (/\ updateDelay(id, v)
             /\ \/ id \notin idsOf(events)
                \/ \E i \in 1..Len(events) :
                        events[i].id = id /\ events[i].delay = sanitizeDelay(v))
            => UNCHANGED <<events, history, future, selectedIds, isDirty>>]_vars

\* an edit was made, then updateDelay changed nothing: undo still leads to
\* the sequence before that edit
NoOpSetDelayWitness ==
    /\ lastOp.op = "updateDelay"
    /\ lastOp.out = <<"noop">>
    /\ Len(history) = 1
    /\ track.ok /\ track.u = 0 /\ commitsSoFar = 1
    /\ history[1] = track.log[1]
    /\ selectedIds # {}

\* C8 as stated: after updateDelay(id, v) on any present id the delay reads 0
\* for negative v and 2^32-1 for (finite) v above 2^32-1.
SetDelaySanitizesEveryEvent ==
    [][lastOp'.op = "updateDelay" =>
        \A i \in 1..Len(events), v \in DelayInputs :
            (updateDelay(events[i].id, v) /\ isFinite(v)) =>
                /\ Lt(v, I(0)) => events'[i].delay = I(0)
                /\ Lt(Fin(65535, 65535), v) => events'[i].delay = Fin(65535, 65535)]_vars

\* C8 amended: after updateDelay(id, v) on an event that is not the first the
\* delay reads 0 for negative v, 2^32-1 for finite v above 2^32-1 and 0 for
\* v that is not finite; the first event's delay reads 0 whatever v is.
SetDelaySanitizes ==
    [][lastOp'.op = "updateDelay" =>
        \A i \in 1..Len(events), v \in DelayInputs :
            updateDelay(events[i].id, v) =>
                /\ i = 1 => events'[i].delay = I(0)
                /\ ~isFinite(v) => events'[i].delay = I(0)
                /\ (i > 1 /\ isFinite(v) /\ Lt(v, I(0))) => events'[i].delay = I(0)
                /\ (i > 1 /\ isFinite(v) /\ Lt(Fin(65535, 65535), v)) =>
                        events'[i].delay = Fin(65535, 65535)]_vars

\* updateDelay with 2^32 + 5 left 2^32-1 in an event that is not the first
SetDelaySanitizesWitness ==
    /\ lastOp.op = "updateDelay"
    /\ lastOp.out = <<"committed">>
    /\ Len(events) >= 2
    /\ events[2].delay = Fin(65535, 65535)
    /\ history[Len(history)][2].delay # Fin(65535, 65535)

\* C9: loadFile or mergeFile of bytes that are not whole records leaves the
\* working sequence, baseline, baseTime, history, redo stack, selection and
\* dirty flag as before the call, and sets the error message.
StoreState == <<events, initialEvents, baseTime, history, future, selectedIds,
                selectionAnchor, isDirty>>
FailedReadPreservesState ==
    [][/\ lastOp'.op \in {"loadFileStart", "mergeFileStart"} => UNCHANGED StoreState
       /\ \A k \in 1..Len(pending) :
            (/\ loadFileResume(k) \/ mergeFileResume(k)
             /\ Len(pending[k].file.bytes) % 20 # 0)
            => (UNCHANGED StoreState /\ error' # null)]_vars

\* a bad file was refused while there were edits, a selection and an undo
\* stack to keep
FailedReadPreservesStateWitness ==
    /\ lastOp.op \in {"loadFile", "mergeFile"}
    /\ lastOp.out = <<"threw">>
    /\ error = <<<<"Unexpected .rec size", 23, 20>>>>
    /\ Len(events) > 0
    /\ isDirty
    /\ Len(history) > 0
    /\ selectedIds # {}

\* a buffer of two records and a stray tail was refused
ParseRecLengthCheckWitness ==
    /\ codec.pc = "parsed"
    /\ Len(codec.buffer) = 59
    /\ codec.parsed.threw
    /\ codec.parsed.message[2] = 59


\* the absolute timestamp of record i (counted from 1) of a buffer
absOf(buffer, i) == getUint32(buffer, (i - 1) * 20 + 12)

\* (a - b + 2^32) mod 2^32 for a, b in [0, 2^32-1], by cases
wrapDiff(a, b) ==
    IF Lt(a, b) THEN Minus(Plus(a, Fin(65536, 0)), b) ELSE Minus(a, b)

\* C11: for every decoded record i > 0 the delay is
\* (abs[i] - abs[i-1] + 2^32) mod 2^32, an integer of [0, 2^32-1].
WrapAroundDelay ==
    (codec.pc = "parsed" /\ ~codec.parsed.threw) =>
        \A i \in 2..Len(codec.parsed.events) :
            LET delay == codec.parsed.events[i].delay
            IN  /\ delay = wrapDiff(absOf(codec.buffer, i), absOf(codec.buffer, i - 1))
                /\ delay.k = "fin" /\ ~delay.half
                /\ delay.hi >= 0 /\ delay.hi <= 65535
                /\ delay.lo >= 0 /\ delay.lo <= 65535

\* timestamps 0xFFFFFFF0 then 0x00000010 were decoded: the delay is 32
WrapAroundDelayWitness ==
    /\ codec.pc = "parsed"
    /\ ~codec.parsed.threw
    /\ Len(codec.parsed.events) = 2
    /\ absOf(codec.buffer, 1) = Fin(65535, 65520)
    /\ absOf(codec.buffer, 2) = Fin(0, 16)
    /\ codec.parsed.events[2].delay = I(32)

\* C12: every id of the selection is the id of an event of the working
\* sequence.
SelectionSubset == selectedIds \subseteq idsOf(events)

\* an event was removed while both events were selected: the one left is
\* still selected, the removed id is not
SelectionSubsetWitness ==
    /\ lastOp.op = "removeEvent"
    /\ lastOp.out = <<"committed">>
    /\ Len(events) = 1
    /\ selectedIds = {events[1].id}
    /\ selectionAnchor # null
    /\ Len(history[Len(history)]) = 2

\* C13: removeEvent(id) leaves the selection equal to the prior selection
\* minus {id}.
RemovePrunesSelection ==
    [][lastOp'.op = "removeEvent" =>
        \A id \in IdInputs : removeEvent(id) => selectedIds' = selectedIds \ {id}]_vars

\* the middle one of three events was removed; the first and the last are
\* selected
RemovePrunesSelectionWitness ==
    /\ lastOp.op = "removeEvent"
    /\ lastOp.out = <<"committed">>
    /\ Len(events) = 2
    /\ Len(history) >= 1
    /\ Len(history[Len(history)]) = 3
    /\ events[1].id = history[Len(history)][1].id
    /\ events[2].id = history[Len(history)][3].id
    /\ selectedIds = {events[1].id, events[2].id}

\* C14: the history stack and the redo stack hold at most 50 snapshots each.
BoundedHistory == Len(history) <= 50 /\ Len(future) <= 50

\* 52 commits were made, the two oldest snapshots were dropped, and the 50
\* that were left were all undone
BoundedHistoryWitness ==
    /\ commitsSoFar = 52
    /\ Len(future) = 50
    /\ Len(history) = 0
    /\ lastOp.op = "undo"

\* the edit named by lastOp was committed
Committed(op) ==
    /\ op.op \in Edits
    /\ op.out \in {<<"committed">>, <<"ok">>}

\* C15: after a committed edit the most recent history entry is the working
\* sequence as it was before the edit, ids included, and the store is dirty.
HistoryPush ==
    [][Committed(lastOp') =>
        /\ Len(history') >= 1
        /\ history'[Len(history')] = events
        /\ isDirty']_vars

\* a batch edit was committed on a clean store: the snapshot has the ids of
\* the working sequence and the delays of before
HistoryPushWitness ==
    /\ lastOp.op = "addDelayToSelection"
    /\ lastOp.out = <<"committed">>
    /\ isDirty
    /\ Len(history) = 1
    /\ history[1] = initialEvents
    /\ idSeq(history[1]) = idSeq(events)
    /\ history[1] # events

\* C16: the redo stack is emptied by every committed edit, by a successful
\* load and by resetChanges; undo grows it by one and redo shrinks it by one.
RedoLifecycle ==
    [][/\ Committed(lastOp') => future' = <<>>
       /\ (lastOp'.op = "loadFile" /\ lastOp'.out = <<"ok">>) => future' = <<>>
       /\ lastOp'.op = "resetChanges" => future' = <<>>
       /\ (lastOp'.op = "undo" /\ Len(history) > 0) => Len(future') = Len(future) + 1
       /\ (lastOp'.op = "redo" /\ Len(future) > 0) => Len(future') = Len(future) - 1]_vars

\* C18: after resetChanges the working sequence equals the baseline, the
\* selection, the history and the redo stack are empty and the store is
\* clean; no edit alters the baseline.
ResetPostcondition ==
    [][/\ lastOp'.op = "resetChanges" =>
            /\ events' = initialEvents
            /\ selectedIds' = {}
            /\ history' = <<>>
            /\ future' = <<>>
            /\ ~isDirty'
       /\ lastOp'.op # "loadFile" => initialEvents' = initialEvents]_vars

\* event i of the working sequence carries the fields of record i of buffer,
\* the wrapped difference of the timestamps as delay (0 for the first record)
\* and the sum of the delays so far as time
DecodedFrom(buffer, i) ==
    /\ events[i].message = getUint32(buffer, (i - 1) * 20)
    /\ events[i].paramL = getUint32(buffer, (i - 1) * 20 + 4)
    /\ events[i].paramH = getUint32(buffer, (i - 1) * 20 + 8)
    /\ events[i].hwnd = getUint32(buffer, (i - 1) * 20 + 16)
    /\ events[i].delay =
            IF i = 1 THEN I(0) ELSE wrapDiff(absOf(buffer, i), absOf(buffer, i - 1))
    /\ events[i].time =
            IF i = 1 THEN I(0) ELSE Plus(events[i - 1].time, events[i].delay)

\* C17: after a successful load the working sequence and the baseline are the
\* normalized decode of the bytes, baseTime is the first record's timestamp
\* (0 for an empty file), selection, anchor, history and redo are empty and
\* the store is clean.
LoadPostcondition ==
    (lastOp.op = "loadFile" /\ lastOp.out = <<"ok">>) =>
        /\ events = initialEvents
        /\ Len(events) * 20 = Len(loadedBytes)
        /\ \A i \in 1..Len(events) : DecodedFrom(loadedBytes, i)
        /\ baseTime = IF Len(loadedBytes) = 0 THEN I(0) ELSE absOf(loadedBytes, 1)
        /\ selectedIds = {}
        /\ selectionAnchor = null
        /\ history = <<>>
        /\ future = <<>>
        /\ ~isDirty

\* the two-record file was loaded into a store in which events had been
\* inserted before
LoadPostconditionWitness ==
    /\ lastOp.op = "loadFile"
    /\ lastOp.out = <<"ok">>
    /\ stamp > 1
    /\ Len(events) = 2
    /\ baseTime = Fin(65535, 65520)
    /\ events[2].delay = I(32)

EmptyUndoRedo ==
    [][((lastOp'.op = "undo" /\ Len(history) = 0)
            \/ (lastOp'.op = "redo" /\ Len(future) = 0)) =>
        UNCHANGED <<events, initialEvents, history, future, selectedIds,
                    selectionAnchor, isDirty>>]_vars

\* redo found nothing to redo on a clean store with a selection
EmptyUndoRedoWitness ==
    /\ lastOp.op = "redo"
    /\ lastOp.out = <<"noop">>
    /\ future = <<>>
    /\ ~isDirty
    /\ Len(events) > 0
    /\ selectedIds # {}
    /\ selectionAnchor # null

\* x mod 2^32 for a finite integer x
modU32(x) == Fin(x.hi % 65536, x.lo)

\* d is an integer of [0, 2^32-1]
IsUint32(d) == d.k = "fin" /\ ~d.half /\ d.hi >= 0 /\ d.hi <= 65535

\* C21: for an event at index i > 0 with a negative delay, encodeRec writes
\* for record i the absolute timestamp of record i-1.
EncodeNegativeDelayAsZero ==
    codec.pc = "encoded" =>
        \A i \in 2..Len(codec.events) :
            (isFinite(codec.events[i].delay) /\ Lt(codec.events[i].delay, I(0))) =>
                absOf(codec.bytes, i) = absOf(codec.bytes, i - 1)

EncodeDefaultBaseTime ==
    (codec.pc = "encoded" /\ ~codec.options.has /\ Len(codec.events) > 0
        /\ IsUint32(codec.events[1].delay)) =>
        absOf(codec.bytes, 1) = codec.events[1].delay

\* b is a with, at most, another time
SameButTime(a, b) ==
    /\ a.id = b.id
    /\ a.message = b.message /\ a.paramL = b.paramL /\ a.paramH = b.paramH
    /\ a.hwnd = b.hwnd
    /\ a.delay = b.delay

\* what C24 says of insertEvents(index, newEvents, delayTotal), with c the
\* index clamped to [0, length]
InsertedAt(c, newEvents, delayTotal) ==
    LET k == Len(newEvents)
    IN  /\ Len(events') = Len(events) + k
        /\ \A j \in 1..c : SameButTime(events[j], events'[j])
        /\ \A j \in (c + 1)..Len(events) : SameButTime(events[j], events'[j + k])
        /\ \A m \in 1..k :
                /\ events'[c + m].id \notin idsOf(events)
                /\ \A n \in 1..k : n # m => events'[c + n].id # events'[c + m].id
                /\ events'[c + m].message = newEvents[m].message
                /\ events'[c + m].paramL = newEvents[m].paramL
                /\ events'[c + m].paramH = newEvents[m].paramH
                /\ events'[c + m].hwnd = newEvents[m].hwnd
        /\ events'[c + 1].delay = IF c = 0 THEN I(0) ELSE sanitizeDelay(delayTotal)
        /\ \A m \in 2..k :
                events'[c + m].delay =
                    IF newEvents[m].delay = null THEN I(0) ELSE newEvents[m].delay[1]

MergeOfRecords(k) ==
    /\ pending[k].kind = "merge"
    /\ Len(pending[k].file.bytes) > 0
    /\ Len(pending[k].file.bytes) % 20 = 0

\* the events of before, then the records of the file in file order, the
\* first of them with delay 0
MergedAtEnd(bytes) ==
    LET n == Len(bytes) \div 20
    IN  /\ Len(events') = Len(events) + n
        /\ \A j \in 1..Len(events) : events'[j].id = events[j].id
        /\ \A m \in 1..n :
                /\ events'[Len(events) + m].message = getUint32(bytes, (m - 1) * 20)
                /\ events'[Len(events) + m].id \notin idsOf(events)
        /\ events'[Len(events) + 1].delay = I(0)

\* C25: when a merge completes, the merged events are the tail of the working
\* sequence, after every event that was there just before, and the first of
\* them has delay 0, whatever was committed while the file was being read.
MergeAppends ==
    [][lastOp'.op = "mergeFile" =>
        \A k \in 1..Len(pending) :
            (MergeOfRecords(k) /\ mergeFileResume(k)) =>
                MergedAtEnd(pending[k].file.bytes)]_vars

\* the ids at positions a..b of the working sequence, positions counted
\* from 0 and those outside it left out
idsBetween(a, b) ==
    {events[p + 1].id : p \in {q \in 0..(Len(events) - 1) : a <= q /\ q <= b}}

\* C26: toggleSelection with shift on a non-empty sequence selects the ids at
\* positions min(anchor, index)..max(anchor, index), instead of the prior
\* selection or, with meta, added to it; the anchor becomes index when none is
\* set and is left alone otherwise.
ShiftToggleRange ==
    [][lastOp'.op = "toggleSelection" =>
        \A index \in 0..(Len(events) - 1), meta \in BOOLEAN :
            toggleSelection(events[index + 1].id, index, TRUE, meta) =>
                LET anchor == IF selectionAnchor = null THEN index ELSE selectionAnchor[1]
                    range == IF anchor <= index THEN idsBetween(anchor, index)
                             ELSE idsBetween(index, anchor)
                IN  /\ selectedIds' = IF meta THEN selectedIds \cup range ELSE range
                    /\ selectionAnchor' =
                            IF selectionAnchor = null THEN <<index>> ELSE selectionAnchor]_vars

\* with the anchor on the first row, a shift-toggle of the third row selected
\* all three events and left the anchor where it was
ShiftToggleRangeWitness ==
    /\ lastOp.op = "toggleSelection"
    /\ lastOp.out = <<TRUE, FALSE>>
    /\ Len(events) = 3
    /\ selectionAnchor = <<0>>
    /\ selectedIds = idsOf(events)

\* C27: toggleSelection without shift flips the membership of id and of no
\* other id; the anchor is index when the selection is not empty afterwards
\* (so when id is now selected) and null when it is empty.
PlainToggle ==
    [][lastOp'.op = "toggleSelection" =>
        \A index \in 0..(Len(events) - 1), meta \in BOOLEAN :
            LET id == events[index + 1].id
            IN  toggleSelection(id, index, FALSE, meta) =>
                    /\ (id \in selectedIds') = (id \notin selectedIds)
                    /\ selectedIds' \ {id} = selectedIds \ {id}
                    /\ id \in selectedIds' => selectionAnchor' = <<index>>
                    /\ selectedIds' = {} => selectionAnchor' = null]_vars

\* the second row was added to a selection holding the first row
PlainToggleWitness ==
    /\ lastOp.op = "toggleSelection"
    /\ lastOp.out = <<FALSE, FALSE>>
    /\ Len(events) = 3
    /\ selectedIds = {events[1].id, events[2].id}
    /\ selectionAnchor = <<1>>

\* C28: the baseline changes only in a successful load; edits, undo, redo,
\* resetChanges, the selection operations and a failed load leave it as it
\* was.
BaselineFrame ==
    [][initialEvents' # initialEvents =>
        (lastOp'.op = "loadFile" /\ lastOp'.out = <<"ok">>)]_vars

\* the selected events of a loaded file were deleted, the deletion was
\* undone and redone: the baseline is still the decode of the file
BaselineFrameWitness ==
    /\ lastOp.op = "redo"
    /\ lastOp.out = <<"redone">>
    /\ Len(initialEvents) = 2
    /\ Len(events) < 2
    /\ isDirty
    /\ \A i \in 1..2 : initialEvents[i].message = getUint32(loadedBytes, (i - 1) * 20)

\* C29: after n > 50 commits in a row from an empty history, the history
\* holds the sequences of before the last 50 commits (the n-50 oldest
\* snapshots are gone); 50 undos take effect and lead to the sequence of
\* right after commit n-50; one more undo changes nothing.
OldestFirstEviction ==
    (track.ok /\ commitsSoFar > 50 /\ track.r = 0) =>
        /\ track.u <= 50
        /\ Len(history) = 50 - track.u
        /\ \A j \in 1..Len(history) : history[j] = track.log[commitsSoFar - 50 + j]
        /\ events = track.log[commitsSoFar + 1 - track.u]
        /\ (lastOp.op = "undo" /\ lastOp.out = <<"noop">>) =>
                /\ track.u = 50
                /\ events = track.log[commitsSoFar - 49]

\* 52 commits, 50 undos and one more undo: the working sequence is the one of
\* right after the second commit, not the loaded one
OldestFirstEvictionWitness ==
    /\ track.ok
    /\ commitsSoFar = 52
    /\ track.u = 50
    /\ track.r = 0
    /\ lastOp = Op("undo", <<"noop">>)
    /\ events = track.log[3]
    /\ events # track.log[1]
    /\ events # track.log[2]

\* C30: applyDelayToSelection(v) gives sanitizeDelay(v) to every selected
\* event but the first, leaves the delays of the others and all ids, order
\* and fields as they were, keeps the selection, and pushes the sequence of
\* before as one history entry, which the next undo restores whole.
BatchEditAtomic ==
    [][/\ (lastOp.op = "applyDelayToSelection" /\ lastOp.out = <<"committed">> /\ undo) =>
            /\ events' = history[Len(history)]
            /\ history' = SubSeq(history, 1, Len(history) - 1)
       /\ lastOp'.op = "applyDelayToSelection" =>
        \A value \in BatchInputs :
            applyDelayToSelection(value) =>
                /\ Len(events') = Len(events)
                /\ \A i \in 1..Len(events) :
                        /\ events'[i].id = events[i].id
                        /\ events'[i].message = events[i].message
                        /\ events'[i].paramL = events[i].paramL
                        /\ events'[i].paramH = events[i].paramH
                        /\ events'[i].hwnd = events[i].hwnd
                        /\ events'[i].delay =
                                IF i > 1 /\ events[i].id \in selectedIds
                                THEN sanitizeDelay(value) ELSE events[i].delay
                /\ selectedIds' = selectedIds
                /\ events' # events =>
                        /\ Len(history') = Len(history) + 1
                        /\ history'[Len(history')] = events
                        /\ SubSeq(history', 1, Len(history)) = history
                /\ events' = events => history' \in {history, Append(history, events)}]_vars

\* all three events were selected and given delay 5: the first has delay 0,
\* the other two have 5, and the one history entry holds the delays of before
BatchEditAtomicWitness ==
    /\ lastOp.op = "applyDelayToSelection"
    /\ lastOp.out = <<"committed">>
    /\ Len(events) = 3
    /\ selectedIds = idsOf(events)
    /\ events[1].delay = I(0)
    /\ events[2].delay = I(5)
    /\ events[3].delay = I(5)
    /\ history = <<initialEvents>>
    /\ initialEvents[2].delay = I(32)
    /\ initialEvents[3].delay = I(496)

\* the position, counted from 1, of the event of evs with the given id
posOf(evs, id) == CHOOSE i \in 1..Len(evs) : evs[i].id = id

\* b carries the id and the message, param and handle fields of a
SameValues(a, b) ==
    /\ a.id = b.id
    /\ a.message = b.message /\ a.paramL = b.paramL /\ a.paramH = b.paramH
    /\ a.hwnd = b.hwnd

\* C31: deleteSelected removes the events whose ids are selected and no
\* other, keeps the others in their order with their ids and fields, leaves
\* the selection empty and the anchor null and pushes one history entry; with
\* an empty selection it changes nothing.
DeleteSelectedPostcondition ==
    [][(lastOp'.op = "deleteSelected" /\ deleteSelected) =>
        IF selectedIds = {}
        THEN UNCHANGED storeVars
        ELSE /\ idsOf(events') = idsOf(events) \ selectedIds
             /\ Len(events') = Cardinality(idsOf(events'))
             /\ \A i \in 1..Len(events') :
                    /\ SameValues(events[posOf(events, events'[i].id)], events'[i])
                    /\ \A j \in 1..Len(events') :
                            i < j => posOf(events, events'[i].id)
                                        < posOf(events, events'[j].id)
             /\ selectedIds' = {}
             /\ selectionAnchor' = null
             /\ history' = Append(history, events)]_vars

\* the first and the last of three events were selected and deleted: the
\* middle one is left, nothing is selected and the history grew by the
\* sequence of three
DeleteSelectedPostconditionWitness ==
    /\ lastOp.op = "deleteSelected"
    /\ lastOp.out = <<"committed">>
    /\ Len(events) = 1
    /\ history = <<initialEvents>>
    /\ Len(initialEvents) = 3
    /\ events[1].id = initialEvents[2].id
    /\ events[1].message = initialEvents[2].message
    /\ selectedIds = {}
    /\ selectionAnchor = null

\* C32: removeEvent(id) for a present id yields the sequence without that
\* event, the others in their order with their ids and fields; each keeps
\* its delay, but the new first event has delay 0 when the first was removed;
\* for an absent id nothing changes.
RemovePostcondition ==
    [][lastOp'.op = "removeEvent" =>
        \A id \in IdInputs :
            removeEvent(id) =>
                IF id \notin idsOf(events)
                THEN UNCHANGED storeVars
                ELSE LET k == posOf(events, id)
                     IN  /\ Len(events') = Len(events) - 1
                         /\ \A j \in 1..(Len(events) - 1) :
                                LET old == events[IF j < k THEN j ELSE j + 1]
                                IN  /\ SameValues(old, events'[j])
                                    /\ events'[j].delay =
                                            IF k = 1 /\ j = 1 THEN I(0) ELSE old.delay]_vars

\* the first of three events was removed: the event that had delay 32 is
\* first with delay 0 and the last one still has delay 496
RemovePostconditionWitness ==
    /\ lastOp.op = "removeEvent"
    /\ lastOp.out = <<"committed">>
    /\ Len(events) = 2
    /\ history = <<initialEvents>>
    /\ Len(initialEvents) = 3
    /\ initialEvents[2].delay = I(32)
    /\ events[1].id = initialEvents[2].id
    /\ events[1].delay = I(0)
    /\ events[2].id = initialEvents[3].id
    /\ events[2].delay = I(496)

\* C33: recomputeTimeline returns as many events as it is given, in the same
\* order, each with the id and the message, param and handle fields it came
\* with and no field more or less; applied to its own result it returns that
\* result.
TimelineNormalizer ==
    /\ codec.pc \in {"normalized", "renormalized"} =>
            /\ Len(codec.once) = Len(codec.events)
            /\ \A i \in 1..Len(codec.events) :
                    /\ SameValues(codec.events[i], codec.once[i])
                    /\ DOMAIN codec.once[i] = DOMAIN codec.events[i]
    /\ codec.pc = "renormalized" => codec.twice = codec.once

\* three events with delays -5, 2^32 + 5 and 4.5 and stale times were
\* normalized twice: the delays read 0, 2^32 - 1 and 5
TimelineNormalizerWitness ==
    /\ codec.pc = "renormalized"
    /\ Len(codec.events) = 3
    /\ codec.events[1].delay = I(-5)
    /\ codec.events[2].delay = Fin(LIMB, 5)
    /\ codec.events[3].delay = Half(4)
    /\ codec.events[2].time = I(99)
    /\ codec.once[1].delay = I(0)
    /\ codec.once[2].delay = Fin(65535, 65535)
    /\ codec.once[3].delay = I(5)
    /\ codec.once[3].time = Fin(65536, 4)

\* min(max(x, 0), 2^32 - 1) for a finite x
clampU32(x) ==
    IF Lt(x, I(0)) THEN I(0)
    ELSE IF Lt(Fin(65535, 65535), x) THEN Fin(65535, 65535)
    ELSE x

\* C34: addDelayToSelection(delta) with an integer delta, those of the + and
\* - shortcuts (+10, -10) among them, gives every selected event but the
\* first the delay min(max(delay + delta, 0), 2^32 - 1) and leaves the delays
\* of the other events as they were; a delay below 10 reads 0 after -10.
NudgeSaturates ==
    [][lastOp'.op = "addDelayToSelection" =>
        \A delta \in NudgeInputs :
            addDelayToSelection(delta) =>
                /\ Len(events') = Len(events)
                /\ \A i \in 1..Len(events) :
                        events'[i].delay =
                            IF i > 1 /\ events[i].id \in selectedIds
                            THEN clampU32(Plus(events[i].delay, delta))
                            ELSE events[i].delay]_vars

\* the last two of three events were selected and nudged by -10: the delay
\* 5 reads 0, the delay 32 reads 22
NudgeSaturatesWitness ==
    /\ lastOp.op = "addDelayToSelection"
    /\ lastOp.out = <<"committed">>
    /\ Len(events) = 3
    /\ selectedIds = {events[2].id, events[3].id}
    /\ history = <<initialEvents>>
    /\ initialEvents[2].delay = I(5)
    /\ initialEvents[3].delay = I(32)
    /\ events[2].delay = I(0)
    /\ events[3].delay = I(22)

\* C35: clampSmallDelays(threshold) sets to 0 the delay of every selected
\* event but the first whose delay is not 0 and is less than or equal to
\* threshold, and leaves every other delay as it was.
ClampJitter ==
    [][lastOp'.op = "clampSmallDelays" =>
        \A threshold \in ThresholdInputs :
            clampSmallDelays(threshold) =>
                /\ Len(events') = Len(events)
                /\ \A i \in 1..Len(events) :
                        events'[i].delay =
                            IF /\ i > 1
                               /\ events[i].id \in selectedIds
                               /\ events[i].delay # I(0)
                               /\ ~Lt(threshold, events[i].delay)
                            THEN I(0)
                            ELSE events[i].delay]_vars

\* C36: the history stack and the redo stack together never hold more than
\* 50 snapshots, so a push onto the redo stack never finds it full.
CombinedStackBound ==
    /\ [](Len(history) + Len(future) <= HISTORY_LIMIT)
    /\ [][lastOp'.op = "undo" /\ Len(history) > 0 => Len(future) < HISTORY_LIMIT]_vars

\* 52 commits filled the history, 50 undos moved it to the redo stack and 20
\* redos moved part of it back
CombinedStackBoundWitness ==
    /\ commitsSoFar = 52
    /\ lastOp.op = "redo"
    /\ Len(history) = 20
    /\ Len(future) = 30

\* C37: whenever the dirty flag is false the working sequence equals the
\* baseline, event by event.
CleanImpliesBaseline == ~isDirty => events = initialEvents

\* an event was inserted into a loaded file and the changes were reset: the
\* store is clean and holds the two loaded events
CleanImpliesBaselineWitness ==
    /\ lastOp.op = "resetChanges"
    /\ lastOp.out = <<"reset">>
    /\ stamp = 2
    /\ ~isDirty
    /\ Len(events) = 2
    /\ events = initialEvents

\* the message, param and handle fields of e are integers of [0, 2^32-1]
ValuesInRange(e) ==
    IsUint32(e.message) /\ IsUint32(e.paramL) /\ IsUint32(e.paramH) /\ IsUint32(e.hwnd)

\* C38: whenever the working sequence is not empty and its value fields are
\* in the unsigned 32-bit range, parseRec of the bytes exportRec returns
\* gives, position by position, its message, paramL, paramH, hwnd, delay and
\* time, and the store's baseTime; exportRec changes nothing in the store and
\* returns nothing for an empty sequence.
ExportFaithful ==
    /\ []((Len(events) > 0 /\ \A i \in 1..Len(events) : ValuesInRange(events[i])) =>
            LET parsed == parseRec(exportedBytes)
            IN  /\ ~parsed.threw
                /\ Len(parsed.events) = Len(events)
                /\ \A i \in 1..Len(events) :
                        /\ parsed.events[i].message = events[i].message
                        /\ parsed.events[i].paramL = events[i].paramL
                        /\ parsed.events[i].paramH = events[i].paramH
                        /\ parsed.events[i].hwnd = events[i].hwnd
                        /\ parsed.events[i].delay = events[i].delay
                        /\ parsed.events[i].time = events[i].time
                /\ parsed.baseTime = baseTime)
    /\ [](Len(events) = 0 => exportResult = null)
    /\ [][lastOp'.op = "exportRec" =>
            (UNCHANGED storeVars /\ lastOp'.out = exportResult)]_vars

\* a loaded file with an event inserted between its two was exported: the
\* bytes decode to three events, the inserted one with delay 5, and to the
\* baseTime of the file
ExportFaithfulWitness ==
    /\ lastOp.op = "exportRec"
    /\ Len(events) = 3
    /\ isDirty
    /\ Len(lastOp.out[1].blob) = 60
    /\ parseRec(lastOp.out[1].blob).events[2].delay = I(5)
    /\ parseRec(lastOp.out[1].blob).events[3].time = I(37)
    /\ parseRec(lastOp.out[1].blob).baseTime = Fin(65535, 65520)
    /\ events[2].message = I(513)

\* C39: loading is true whenever a loadFile or mergeFile call has been
\* started and has not finished, several at once included, and false when
\* every call made has finished.
LoadingWhileReading ==
    /\ Len(pending) > 0 => loading
    /\ Len(pending) = 0 => ~loading

\* C40: whenever the selection is empty the anchor is null, so that a
\* shift-toggle made after the selection was emptied starts its range at the
\* clicked row.
AnchorFollowsSelection == selectedIds = {} => selectionAnchor = null
====
